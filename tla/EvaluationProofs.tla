-------------------------- MODULE EvaluationProofs --------------------------
(***************************************************************************)
(* Theorems of Evaluation, for any prompts, any length of a journey, and   *)
(* any number of calls, edits and attempts.                                *)
(*                                                                         *)
(* Each of the three invariants says what the run has established by the   *)
(* time it is at a point of the code, and that nobody disturbs it there.   *)
(***************************************************************************)
EXTENDS Evaluation, TLAPS, SequenceTheorems, WellFoundedInduction

(* Behind the point where the answer was written; where it was accepted. *)
Answered == {"accept", "respond", "summarise", "returned"}

Scored == {"respond", "summarise", "returned"}

(* What the answer says of the turns, which stay as they are behind it. *)
AnswerInv ==
    /\ pc \in Answered =>
          /\ \A i \in DOMAIN turns : turns[i].error # "infra"
          /\ \A i \in DOMAIN turns : turns[i].violation => answer.hard
    /\ pc \in Scored => ~(answer.success /\ answer.hard)

LEMMA AnswerInductive == AnswerInv /\ [Next]_vars => AnswerInv'
<1> SUFFICES ASSUME AnswerInv, [Next]_vars PROVE AnswerInv'
  OBVIOUS
<1> USE DEF AnswerInv, Answered, Scored, Goto, files, request, inputs, agentVars, artifacts
<1>1. CASE ReadCatalog \/ CheckExport \/ Launch \/ Reload \/ Digest \/ Load
  BY <1>1 DEF ReadCatalog, CheckExport, Launch, Reload, Digest, Load
<1>2. CASE BeginTurn \/ ToolCall \/ EndTurn \/ RunEnds
  BY <1>2 DEF BeginTurn, ToolCall, EndTurn, RunEnds
<1>3. CASE Report
  <2>1. pc' = "accept" /\ UNCHANGED turns /\ ~SystemError /\ answer'.hard = HardFailure
    BY <1>3 DEF Report
  <2> QED
    BY <2>1 DEF SystemError, HardFailure
<1>4. CASE Accept
  BY <1>4 DEF Accept, Accepted
<1>5. CASE WriteResponse \/ WriteSummary
  BY <1>5 DEF WriteResponse, WriteSummary
<1>6. CASE Refuse \/ TryAgain
  BY <1>6 DEF Refuse, TryAgain
<1>7. CASE EditCase \/ EditPrompt
  BY <1>7 DEF EditCase, EditPrompt
<1>8. CASE UNCHANGED vars
  BY <1>8 DEF vars
<1> QED
  BY <1>1, <1>2, <1>3, <1>4, <1>5, <1>6, <1>7, <1>8 DEF Next, Lab, Worker, Terminated

(* A journey is scored only if no turn of it failed for a reason that is   *)
(* not the model's, and a violation in any turn is never a success.        *)
THEOREM VerdictAlwaysSound == Spec => []VerdictIsSound
<1>1. Init => AnswerInv
  BY DEF Init, AnswerInv, Answered, Scored
<1>2. AnswerInv => VerdictIsSound
  BY DEF AnswerInv, VerdictIsSound, Answered, Scored
<1> QED
  BY <1>1, <1>2, AnswerInductive, PTL DEF Spec

---------------------------------------------------------------------------
(* Which points of the code lie behind the digest, and behind the load. *)
Hashed == {"load", "turn", "agent", "report"} \union Answered

Loaded == Hashed \ {"load"}

(* What is known of the prompt and of the case as the run goes on. *)
InputInv ==
    /\ slipped \in BOOLEAN
    /\ pc \in Hashed \union {"digest"} =>
          prompt.text = candidate /\ (exported => prompt.from = "file")
    /\ pc = "reload" => prompt.text = candidate
    /\ pc = "load" => caseFile = authored \/ slipped
    /\ pc \in Loaded => loaded = authored \/ slipped
    /\ pc \in Answered => answer.questions = Questions(loaded)
    /\ pc \in Scored => Questions(loaded) = Questions(authored)
    /\ pc = "returned" => (summary.override => exported)

LEMMA InputInductive == InputInv /\ [Next]_vars => InputInv'
<1> SUFFICES ASSUME InputInv, [Next]_vars PROVE InputInv'
  OBVIOUS
<1> USE DEF InputInv, Answered, Scored, Hashed, Loaded, Goto, files, request, inputs, agentVars,
            artifacts
<1>1. CASE ReadCatalog \/ CheckExport \/ Launch
  BY <1>1 DEF ReadCatalog, CheckExport, Launch
<1>2. CASE Reload
  BY <1>2 DEF Reload
<1>3. CASE Digest \/ Load
  BY <1>3 DEF Digest, Load
<1>4. CASE BeginTurn \/ ToolCall \/ EndTurn \/ RunEnds
  BY <1>4 DEF BeginTurn, ToolCall, EndTurn, RunEnds
<1>5. CASE Report
  <2>1. pc = "report" /\ pc' = "accept"
    BY <1>5 DEF Report
  <2>2. UNCHANGED <<caseFile, authored, prompt, loaded, slipped, candidate, exported, summary>>
    BY <1>5 DEF Report
  <2>3. answer'.questions = Questions(loaded')
    BY <1>5, <2>2 DEF Report
  <2> QED
    BY <2>1, <2>2, <2>3 DEF Questions
<1>6. CASE Accept
  BY <1>6 DEF Accept, Accepted, Questions
<1>7. CASE WriteResponse
  BY <1>7 DEF WriteResponse, Questions
<1>8. CASE WriteSummary
  BY <1>8 DEF WriteSummary, Questions
<1>9. CASE Refuse \/ TryAgain
  BY <1>9 DEF Refuse, TryAgain
<1>10. CASE EditCase
  <2>1. slipped' \in BOOLEAN /\ (slipped \/ pc = "load" => slipped')
    BY <1>10 DEF EditCase
  <2>2. UNCHANGED <<pc, request, authored, prompt, loaded, answer, summary>>
    BY <1>10 DEF EditCase
  <2> QED
    BY <2>1, <2>2 DEF Questions
<1>11. CASE EditPrompt \/ UNCHANGED vars
  BY <1>11 DEF EditPrompt, vars, Questions
<1> QED
  BY <1>1, <1>2, <1>3, <1>4, <1>5, <1>6, <1>7, <1>8, <1>9, <1>10, <1>11
     DEF Next, Lab, Worker, Terminated

(* However the two files are edited while it runs, an evaluation that is   *)
(* returned used the candidate and the questions of the catalog; only the  *)
(* rest of the case can have changed, and only between the worker's reads. *)
THEOREM InputsAlwaysAttested == Spec => []InputsAreAttested
<1>1. Init => InputInv
  BY DEF Init, InputInv, Hashed, Loaded, Answered, Scored
<1>2. InputInv => InputsAreAttested
  BY DEF InputInv, InputsAreAttested, Hashed, Loaded, Answered, Scored
<1> QED
  BY <1>1, <1>2, InputInductive, PTL DEF Spec

---------------------------------------------------------------------------
(* An artifact is something: it has a field that Nothing does not have. *)
LEMMA ArtifactExists == ASSUME NEW a, NEW s, NEW h, NEW c
    PROVE [attempt |-> a, success |-> s, hard |-> h, calls |-> c] # Nothing
<1>1. "attempt" \in DOMAIN [attempt |-> a, success |-> s, hard |-> h, calls |-> c]
  OBVIOUS
<1>2. "attempt" \notin DOMAIN Nothing
  BY DEF Nothing
<1> QED
  BY <1>1, <1>2

(* The lab before it has started the worker. *)
Before == {"catalog", "prompt", "launch"}

(* From the launch on the directory is the run's own, and empty. *)
EvidenceInv ==
    /\ summary # Nothing =>
          /\ response # Nothing /\ response.attempt = summary.attempt
          /\ response.success = summary.success /\ response.hard = summary.hard
    /\ pc \notin Before \union Ended \union {"summarise"} => response = Nothing
    /\ pc = "summarise" =>
          /\ response # Nothing /\ response.attempt = attempt
          /\ response.success = answer.success /\ response.hard = answer.hard
    /\ pc = "returned" =>
          summary # Nothing /\ summary.attempt = attempt /\ summary.success = answer.success

LEMMA EvidenceInductive == EvidenceInv /\ [Next]_vars => EvidenceInv'
<1> SUFFICES ASSUME EvidenceInv, [Next]_vars PROVE EvidenceInv'
  OBVIOUS
<1> USE DEF EvidenceInv, Before, Ended, Goto, files, request, inputs, agentVars, artifacts
<1>1. CASE ReadCatalog \/ CheckExport \/ Launch \/ Reload \/ Digest \/ Load
  BY <1>1 DEF ReadCatalog, CheckExport, Launch, Reload, Digest, Load
<1>2. CASE BeginTurn \/ ToolCall \/ EndTurn \/ RunEnds \/ Report \/ Accept
  BY <1>2 DEF BeginTurn, ToolCall, EndTurn, RunEnds, Report, Accept
<1>3. CASE WriteResponse
  <2>1. response' = [attempt |-> attempt, success |-> answer.success, hard |-> answer.hard,
                     calls |-> answer.calls]
    BY <1>3 DEF WriteResponse
  <2>2. response' # Nothing
    BY <2>1, ArtifactExists
  <2>3. summary = Nothing /\ UNCHANGED <<summary, attempt, answer>> /\ pc' = "summarise"
    BY <1>3 DEF WriteResponse
  <2> QED
    BY <2>1, <2>2, <2>3
<1>4. CASE WriteSummary
  <2>1. summary' = [attempt |-> attempt, success |-> answer.success, hard |-> answer.hard,
                    override |-> exported /\ answer.verified]
    BY <1>4 DEF WriteSummary
  <2>2. summary' # Nothing
    <3>1. "attempt" \in DOMAIN summary' /\ "attempt" \notin DOMAIN Nothing
      BY <2>1 DEF Nothing
    <3> QED
      BY <3>1
  <2>3. pc = "summarise" /\ UNCHANGED <<response, attempt, answer>> /\ pc' = "returned"
    BY <1>4 DEF WriteSummary
  <2> QED
    BY <2>1, <2>2, <2>3
<1>5. CASE Refuse \/ TryAgain
  BY <1>5 DEF Refuse, TryAgain
<1>6. CASE EditCase \/ EditPrompt
  BY <1>6 DEF EditCase, EditPrompt
<1>7. CASE UNCHANGED vars
  BY <1>7 DEF vars
<1> QED
  BY <1>1, <1>2, <1>3, <1>4, <1>5, <1>6, <1>7 DEF Next, Lab, Worker, Terminated

(* However often a run is cut short and tried again in its directory, the  *)
(* two artifacts in it are of one run.                                     *)
THEOREM EvidenceAlwaysWhole == Spec => []EvidenceIsWhole
<1>1. Init => EvidenceInv
  BY DEF Init, EvidenceInv, Before, Ended
<1>2. EvidenceInv => EvidenceIsWhole
  BY DEF EvidenceInv, EvidenceIsWhole
<1> QED
  BY <1>1, <1>2, EvidenceInductive, PTL DEF Spec
---------------------------------------------------------------------------
(* Of the numbers in a set one is the smallest.  This is how the proofs    *)
(* below argue over the length of a sequence: a smallest counterexample    *)
(* has one before it that is none.                                         *)
LEMMA LeastNumber == ASSUME NEW T \in SUBSET Nat, T # {}
                     PROVE  \E n \in T : \A m \in T : n <= m
<1> DEFINE R == {ss \in Nat \X Nat : ss[1] < ss[2]}
<1>1. IsWellFoundedOn(R, Nat)
  BY NatLessThanWellFounded DEF OpToRel
<1>2. PICK n \in T : \A m \in T : ~ (<<m, n>> \in R)
  <2> HIDE DEF R
  <2> QED
    BY <1>1, WFMin
<1>3. ASSUME NEW m \in T PROVE n <= m
  <2>1. <<m, n>> \in Nat \X Nat /\ ~ (<<m, n>> \in R)
    BY <1>2
  <2> QED
    BY <2>1
<1> QED
  BY <1>3

(* The recursion in FlattenSeq, over the first n sequences. *)
Flattens(f, s, n) == f = [i \in 1..n |-> IF i = 1 THEN s[i] ELSE f[i-1] \o s[i]]

LEMMA FlattensExists == ASSUME NEW s, NEW n \in Nat PROVE \E f : Flattens(f, s, n)
<1> DEFINE T == {m \in Nat : ~ \E f : Flattens(f, s, m)}
<1> SUFFICES ASSUME T # {} PROVE FALSE
  OBVIOUS
<1>1. PICK m \in T : \A k \in T : m <= k
  <2> HIDE DEF T
  <2>1. T \in SUBSET Nat
    BY DEF T
  <2> QED
    BY <2>1, LeastNumber
<1>2. CASE m = 0
  <2>1. Flattens(<<>>, s, 0)
    BY DEF Flattens
  <2> QED
    BY <1>1, <1>2, <2>1
<1>3. CASE m # 0
  <2>1. m - 1 \in Nat /\ m - 1 \notin T
    BY <1>1, <1>3
  <2>2. PICK f : Flattens(f, s, m - 1)
    BY <2>1
  <2> DEFINE g == [i \in 1..m |-> IF i < m THEN f[i]
                                  ELSE IF m = 1 THEN s[m] ELSE f[m-1] \o s[m]]
  <2>3. ASSUME NEW i \in 1..m
        PROVE  g[i] = IF i = 1 THEN s[i] ELSE g[i-1] \o s[i]
    <3>1. CASE i < m
      <4>1. i \in 1..(m-1) /\ g[i] = f[i] /\ (i # 1 => i - 1 \in 1..m /\ g[i-1] = f[i-1])
        BY <3>1
      <4>2. f[i] = IF i = 1 THEN s[i] ELSE f[i-1] \o s[i]
        BY <2>2, <4>1 DEF Flattens
      <4> QED
        BY <4>1, <4>2
    <3>2. CASE i = m
      BY <1>1, <3>2
    <3> QED
      BY <1>1, <3>1, <3>2
  <2>4. g = [i \in 1..m |-> IF i = 1 THEN s[i] ELSE g[i-1] \o s[i]]
    <3> HIDE DEF g
    <3>1. g = [i \in 1..m |-> g[i]]
      BY DEF g
    <3> QED
      BY <2>3, <3>1
  <2> QED
    BY <1>1, <2>4 DEF Flattens
<1> QED
  BY <1>2, <1>3

(* Two such recursions agree for as long as their sequences do. *)
LEMMA FlattensAgree ==
    ASSUME NEW m \in Nat, NEW n \in Nat, m <= n,
           NEW s, NEW t, \A i \in 1..m : s[i] = t[i],
           NEW f, NEW g, Flattens(f, s, m), Flattens(g, t, n)
    PROVE  \A i \in 1..m : f[i] = g[i]
<1> DEFINE T == {i \in 1..m : f[i] # g[i]}
<1> SUFFICES ASSUME T # {} PROVE FALSE
  OBVIOUS
<1>1. PICK i \in T : \A j \in T : i <= j
  <2> HIDE DEF T
  <2>1. T \in SUBSET Nat
    BY DEF T
  <2> QED
    BY <2>1, LeastNumber
<1>2. f[i] = (IF i = 1 THEN s[i] ELSE f[i-1] \o s[i])
  <2>1. i \in 1..m
    BY <1>1
  <2> QED
    BY <2>1 DEF Flattens
<1>3. g[i] = (IF i = 1 THEN t[i] ELSE g[i-1] \o t[i])
  <2>1. i \in 1..n
    BY <1>1
  <2> QED
    BY <2>1 DEF Flattens
<1>4. i # 1 => i - 1 \in 1..m /\ i - 1 \notin T
  BY <1>1
<1> QED
  BY <1>1, <1>2, <1>3, <1>4

LEMMA FlattensStep ==
    ASSUME NEW f, NEW s, NEW n \in Nat, Flattens(f, s, n), NEW i \in 1..n
    PROVE  f[i] = IF i = 1 THEN s[i] ELSE f[i-1] \o s[i]
BY DEF Flattens

LEMMA FlattensLast ==
    ASSUME NEW f, NEW s, NEW n \in Nat, n # 0, Flattens(f, s, n)
    PROVE  f[n] = IF n = 1 THEN s[n] ELSE f[n-1] \o s[n]
<1>1. n \in 1..n
  OBVIOUS
<1> QED
  BY <1>1, FlattensStep

LEMMA FlattenSeqDef ==
    ASSUME NEW Y, NEW s \in Seq(Y), s # <<>>
    PROVE  \E f : /\ Flattens(f, s, Len(s)) /\ FlattenSeq(s) = f[Len(s)]
                  /\ f[Len(s)] = IF Len(s) = 1 THEN s[Len(s)] ELSE f[Len(s)-1] \o s[Len(s)]
<1>1. Len(s) \in Nat /\ Len(s) # 0
  BY EmptySeq, LenProperties
<1> DEFINE c == CHOOSE f : Flattens(f, s, Len(s))
<1>2. Flattens(c, s, Len(s))
  BY <1>1, FlattensExists
<1>3. FlattenSeq(s) = c[Len(s)]
  BY <1>1 DEF FlattenSeq, Flattens
<1> HIDE DEF c
<1>4. c[Len(s)] = IF Len(s) = 1 THEN s[Len(s)] ELSE c[Len(s)-1] \o s[Len(s)]
  BY <1>1, <1>2, FlattensLast
<1> QED
  BY <1>2, <1>3, <1>4

(* Over two sequences of which one is the beginning of the other. *)
Begins(s, u, m) == \A i \in 1..m : s[i] = u[i]

LEMMA FlattensPrefix ==
    ASSUME NEW m \in Nat, NEW n \in Nat, 0 < m, m <= n,
           NEW s, NEW u, Begins(s, u, m),
           NEW f, NEW g, Flattens(f, s, m), Flattens(g, u, n)
    PROVE  g[m] = f[m]
<1>1. m \in 1..m
  OBVIOUS
<1>2. \A i \in 1..m : f[i] = g[i]
  BY FlattensAgree DEF Begins
<1> QED
  BY <1>1, <1>2

LEMMA FlattenSeqPrefix ==
    ASSUME NEW Y, NEW s \in Seq(Y), NEW u \in Seq(Y), s # <<>>, u # <<>>
    PROVE  Len(u) = Len(s) + 1 /\ Begins(s, u, Len(s))
             => FlattenSeq(u) = FlattenSeq(s) \o u[Len(u)]
<1>1. ASSUME Len(u) = Len(s) + 1, Begins(s, u, Len(s))
      PROVE  FlattenSeq(u) = FlattenSeq(s) \o u[Len(u)]
  <2>1. /\ Len(s) \in Nat /\ Len(u) \in Nat /\ 0 < Len(s) /\ Len(s) <= Len(u)
    BY <1>1, EmptySeq, LenProperties
  <2>2. Len(u) # 1 /\ Len(u) - 1 = Len(s)
    BY <1>1, <2>1
  <2>3. PICK f : Flattens(f, s, Len(s)) /\ FlattenSeq(s) = f[Len(s)]
    BY FlattenSeqDef
  <2>4. PICK g : /\ Flattens(g, u, Len(u)) /\ FlattenSeq(u) = g[Len(u)]
                 /\ g[Len(u)] = IF Len(u) = 1 THEN u[Len(u)] ELSE g[Len(u)-1] \o u[Len(u)]
    BY FlattenSeqDef
  <2>5. Begins(s, u, Len(s))
    BY <1>1
  <2>6. g[Len(s)] = f[Len(s)]
    BY <2>1, <2>3, <2>4, <2>5, FlattensPrefix
  <2> QED
    BY <2>2, <2>3, <2>4, <2>6
<1> QED
  BY <1>1

LEMMA FlattenSeqType ==
    ASSUME NEW X, NEW s \in Seq(Seq(X))
    PROVE  FlattenSeq(s) \in Seq(X)
<1>1. CASE s = <<>>
  BY <1>1, EmptySeq DEF FlattenSeq
<1>2. CASE s # <<>>
  <2>1. PICK f : Flattens(f, s, Len(s)) /\ FlattenSeq(s) = f[Len(s)]
    BY <1>2, FlattenSeqDef
  <2> DEFINE T == {i \in 1..Len(s) : f[i] \notin Seq(X)}
  <2>2. Len(s) \in Nat /\ Len(s) # 0 /\ \A i \in 1..Len(s) : s[i] \in Seq(X)
    BY <1>2, EmptySeq, LenProperties, ElementOfSeq
  <2>3. T = {}
    <3> SUFFICES ASSUME T # {} PROVE FALSE
      OBVIOUS
    <3>1. PICK i \in T : \A j \in T : i <= j
      <4> HIDE DEF T
      <4>1. T \in SUBSET Nat
        BY DEF T
      <4> QED
        BY <4>1, LeastNumber
    <3>2. i \in 1..Len(s) /\ f[i] \notin Seq(X)
      OBVIOUS
    <3>3. f[i] = IF i = 1 THEN s[i] ELSE f[i-1] \o s[i]
      BY <2>1, <3>2 DEF Flattens
    <3>4. i # 1 => i - 1 \in 1..Len(s) /\ i - 1 \notin T
      BY <2>2, <3>1, <3>2
    <3>5. i # 1 => f[i-1] \in Seq(X)
      BY <3>4
    <3>6. f[i] \in Seq(X)
      <4>1. i # 1 => f[i-1] \o s[i] \in Seq(X)
        BY <2>2, <3>2, <3>5, ConcatProperties
      <4> QED
        BY <2>2, <3>2, <3>3, <4>1
    <3> QED
      BY <3>2, <3>6
  <2> QED
    BY <2>1, <2>2, <2>3
<1> QED
  BY <1>1, <1>2

LEMMA FlattenSeqAppend ==
    ASSUME NEW X, NEW s \in Seq(Seq(X)), NEW t \in Seq(X)
    PROVE  FlattenSeq(Append(s, t)) = FlattenSeq(s) \o t
<1>1. /\ Append(s, t) \in Seq(Seq(X)) /\ Append(s, t) # <<>>
      /\ Len(Append(s, t)) = Len(s) + 1 /\ Append(s, t)[Len(s) + 1] = t
      /\ \A i \in 1..Len(s) : s[i] = Append(s, t)[i]
  BY AppendProperties
<1>2. CASE s = <<>>
  <2>1. Len(s) = 0 /\ Len(Append(s, t)) = 1
    BY <1>1, <1>2, EmptySeq
  <2>2. FlattenSeq(s) \o t = t
    BY <1>2, <2>1, ConcatEmptySeq DEF FlattenSeq
  <2>3. FlattenSeq(Append(s, t)) = Append(s, t)[1]
    BY <1>1, <2>1, FlattenSeqDef
  <2> QED
    BY <1>1, <2>1, <2>2, <2>3
<1>3. CASE s # <<>>
  <2>1. Begins(s, Append(s, t), Len(s))
    BY <1>1 DEF Begins
  <2>2. FlattenSeq(Append(s, t)) = FlattenSeq(s) \o Append(s, t)[Len(Append(s, t))]
    <3> DEFINE u == Append(s, t)
               Y == Seq(X)
    <3>1. s \in Seq(Y) /\ u \in Seq(Y) /\ u # <<>> /\ Len(u) = Len(s) + 1 /\ Begins(s, u, Len(s))
      BY <1>1, <2>1
    <3> HIDE DEF u, Y
    <3>2. FlattenSeq(u) = FlattenSeq(s) \o u[Len(u)]
      BY <1>3, <3>1, FlattenSeqPrefix
    <3> QED
      BY <3>2 DEF u
  <2> QED
    BY <1>1, <2>2
<1> QED
  BY <1>2, <1>3

LEMMA ReplaceLast ==
    ASSUME NEW Y, NEW u \in Seq(Y), NEW t \in Y, NEW v \in Y
    PROVE  [Append(u, t) EXCEPT ![Len(Append(u, t))] = v] = Append(u, v)
<1> DEFINE s == Append(u, t)
           w == [s EXCEPT ![Len(s)] = v]
<1>1. s \in Seq(Y) /\ Append(u, v) \in Seq(Y)
  BY AppendProperties
<1>2. Len(s) = Len(u) + 1 /\ Len(Append(u, v)) = Len(u) + 1 /\ Len(u) \in Nat
  BY AppendProperties, LenProperties
<1>3. \A j \in 1..Len(u) : s[j] = u[j] /\ Append(u, v)[j] = u[j]
  BY AppendProperties
<1>4. Append(u, v)[Len(u) + 1] = v
  BY AppendProperties
<1> HIDE DEF s
<1>5. Len(s) \in 1..Len(s)
  BY <1>2
<1>6. w \in Seq(Y) /\ Len(w) = Len(s)
  BY <1>1, <1>5
<1>7. \A j \in 1..Len(s) : w[j] = IF j = Len(s) THEN v ELSE s[j]
  BY <1>1, <1>5, LenProperties
<1> HIDE DEF w
<1>8. \A j \in 1..Len(s) : w[j] = Append(u, v)[j]
  BY <1>2, <1>3, <1>4, <1>7
<1>9. w = Append(u, v)
  BY <1>1, <1>2, <1>6, <1>8, SeqEqual
<1> QED
  BY <1>9 DEF w, s

LEMMA AppendShift ==
    ASSUME NEW Y, NEW s \in Seq(Y), NEW t \in Seq(Y), NEW e \in Y
    PROVE  s \o Append(t, e) = Append(s \o t, e)
<1>1. <<e>> \in Seq(Y) /\ s \o t \in Seq(Y)
  BY ConcatProperties
<1>2. Append(t, e) = t \o <<e>>
  BY AppendIsConcat
<1>3. Append(s \o t, e) = (s \o t) \o <<e>>
  BY <1>1, AppendIsConcat
<1> QED
  BY <1>1, <1>2, <1>3, ConcatAssociative

LEMMA FlattenSeqLast ==
    ASSUME NEW X, NEW s \in Seq(Seq(X)), s # <<>>, NEW e \in X
    PROVE  /\ [s EXCEPT ![Len(s)] = Append(@, e)] \in Seq(Seq(X))
           /\ FlattenSeq([s EXCEPT ![Len(s)] = Append(@, e)]) = Append(FlattenSeq(s), e)
<1>1. PICK u \in Seq(Seq(X)), t \in Seq(X) : s = Append(u, t)
  <2> DEFINE Y == Seq(X)
  <2>1. s \in Seq(Y)
    OBVIOUS
  <2> HIDE DEF Y
  <2>2. \E u \in Seq(Y), t \in Y : s = Append(u, t)
    BY <2>1, SequenceEmptyOrAppend
  <2> QED
    BY <2>2 DEF Y
<1>2. Append(t, e) \in Seq(X)
  BY AppendProperties
<1>3. [s EXCEPT ![Len(s)] = Append(t, e)] = Append(u, Append(t, e)) /\ s[Len(s)] = t
  <2> DEFINE Y == Seq(X)
              v == Append(t, e)
  <2>1. u \in Seq(Y) /\ t \in Y /\ v \in Y
    BY <1>2
  <2> HIDE DEF Y, v
  <2>2. [Append(u, t) EXCEPT ![Len(Append(u, t))] = v] = Append(u, v)
    BY <2>1, ReplaceLast
  <2>3. Append(u, t)[Len(Append(u, t))] = t
    BY <2>1, AppendProperties
  <2> QED
    BY <1>1, <2>2, <2>3 DEF v
<1>4. [s EXCEPT ![Len(s)] = Append(@, e)] = Append(u, Append(t, e))
  BY <1>3
<1>5. FlattenSeq(u) \in Seq(X)
  BY FlattenSeqType
<1>6. FlattenSeq(u) \o Append(t, e) = Append(FlattenSeq(u) \o t, e)
  BY <1>5, AppendShift
<1>7. /\ FlattenSeq(Append(u, Append(t, e))) = FlattenSeq(u) \o Append(t, e)
      /\ FlattenSeq(s) = FlattenSeq(u) \o t
  BY <1>1, <1>2, FlattenSeqAppend
<1>8. Append(u, Append(t, e)) \in Seq(Seq(X))
  BY <1>2, AppendProperties
<1> QED
  BY <1>4, <1>6, <1>7, <1>8

---------------------------------------------------------------------------
CallKinds == {"valid", "invalid"}

(* The records of the providers, one after the other, are what the agent   *)
(* was handed, at any moment of a run; the answer and the artifact say so. *)
TraceInv ==
    /\ providers \in Seq(Seq(CallKinds))
    /\ handed = FlattenSeq(providers)
    /\ pc = "agent" => providers # <<>>
    /\ pc \in Answered => answer.calls = handed
    /\ pc \in {"summarise", "returned"} => response.calls = handed

LEMMA TraceInitial == Init => TraceInv
<1>1. <<>> \in Seq(Seq(CallKinds)) /\ FlattenSeq(<<>>) = <<>>
  BY EmptySeq DEF FlattenSeq
<1> QED
  BY <1>1 DEF Init, TraceInv, Answered

(* A provider that recorded nothing yet adds nothing. *)
LEMMA BeginTurnKeepsTrace == TraceInv /\ BeginTurn => TraceInv'
<1> SUFFICES ASSUME TraceInv, BeginTurn PROVE TraceInv'
  OBVIOUS
<1>1. pc' = "agent" /\ UNCHANGED <<handed, answer, response>>
  BY DEF BeginTurn, Goto, artifacts
<1>2. providers \in Seq(Seq(CallKinds)) /\ handed = FlattenSeq(providers)
  BY DEF TraceInv
<1>3. /\ providers' \in Seq(Seq(CallKinds)) /\ providers' # <<>>
      /\ FlattenSeq(providers') = FlattenSeq(providers)
  <2>1. CASE providers' = Append(providers, <<>>)
    <3>1. <<>> \in Seq(CallKinds) /\ FlattenSeq(providers) \in Seq(CallKinds)
      BY <1>2, EmptySeq, FlattenSeqType
    <3>2. FlattenSeq(Append(providers, <<>>)) = FlattenSeq(providers) \o <<>>
      BY <1>2, <3>1, FlattenSeqAppend
    <3>3. FlattenSeq(providers) \o <<>> = FlattenSeq(providers)
      BY <3>1, ConcatEmptySeq
    <3>4. Append(providers, <<>>) \in Seq(Seq(CallKinds)) /\ Append(providers, <<>>) # <<>>
      BY <1>2, <3>1, AppendProperties
    <3> QED
      BY <2>1, <3>2, <3>3, <3>4
  <2>2. CASE providers # <<>> /\ UNCHANGED providers
    BY <1>2, <2>2
  <2> QED
    BY <2>1, <2>2 DEF BeginTurn
<1> QED
  BY <1>1, <1>2, <1>3 DEF TraceInv, Answered

(* A call goes to the record of the last provider and to the agent. *)
LEMMA ToolCallKeepsTrace == TraceInv /\ ToolCall => TraceInv'
<1> SUFFICES ASSUME TraceInv, ToolCall PROVE TraceInv'
  OBVIOUS
<1>1. pc = "agent" /\ UNCHANGED pc
  BY DEF ToolCall
<1>2. PICK call \in CallKinds :
          /\ providers' = [providers EXCEPT ![Len(providers)] = Append(@, call)]
          /\ handed' = Append(handed, call)
  BY DEF ToolCall, CallKinds
<1>3. providers \in Seq(Seq(CallKinds)) /\ providers # <<>> /\ handed = FlattenSeq(providers)
  BY <1>1 DEF TraceInv
<1>4. /\ providers' \in Seq(Seq(CallKinds))
      /\ FlattenSeq(providers') = Append(FlattenSeq(providers), call)
  BY <1>2, <1>3, FlattenSeqLast
<1>5. handed' = FlattenSeq(providers')
  BY <1>2, <1>3, <1>4
<1>6. pc' = "agent" /\ providers' # <<>>
  <2>1. FlattenSeq(providers) \in Seq(CallKinds)
    BY <1>3, FlattenSeqType
  <2>2. FlattenSeq(providers') # <<>>
    BY <1>4, <2>1, AppendProperties
  <2>3. FlattenSeq(<<>>) = <<>>
    BY DEF FlattenSeq
  <2> QED
    BY <1>1, <2>2, <2>3
<1> QED
  BY <1>4, <1>5, <1>6 DEF TraceInv, Answered

LEMMA TraceInductive == TraceInv /\ [Next]_vars => TraceInv'
<1> SUFFICES ASSUME TraceInv, [Next]_vars PROVE TraceInv'
  OBVIOUS
<1> USE DEF TraceInv, Answered, Goto, files, request, inputs, agentVars, artifacts
<1>1. CASE ReadCatalog \/ CheckExport \/ Launch \/ Reload \/ Digest \/ Load
  BY <1>1 DEF ReadCatalog, CheckExport, Launch, Reload, Digest, Load
<1>2. CASE BeginTurn \/ ToolCall
  BY <1>2, BeginTurnKeepsTrace, ToolCallKeepsTrace
<1>3. CASE EndTurn \/ RunEnds
  BY <1>3 DEF EndTurn, RunEnds
<1>4. CASE Report
  <2>1. pc' = "accept" /\ UNCHANGED <<providers, handed>> /\ answer'.calls = Calls
    BY <1>4 DEF Report
  <2> QED
    BY <2>1 DEF Calls
<1>5. CASE Accept
  BY <1>5 DEF Accept
<1>6. CASE WriteResponse
  <2>1. pc = "respond" /\ pc' = "summarise" /\ UNCHANGED <<providers, handed, answer>>
    BY <1>6 DEF WriteResponse
  <2>2. response'.calls = answer.calls
    BY <1>6 DEF WriteResponse
  <2> QED
    BY <2>1, <2>2
<1>7. CASE WriteSummary
  BY <1>7 DEF WriteSummary
<1>8. CASE Refuse
  BY <1>8 DEF Refuse
<1>9. CASE TryAgain
  <2>1. pc' = "catalog" /\ providers' = <<>> /\ handed' = <<>>
    BY <1>9 DEF TryAgain
  <2>2. <<>> \in Seq(Seq(CallKinds)) /\ FlattenSeq(<<>>) = <<>>
    BY EmptySeq DEF FlattenSeq
  <2> QED
    BY <2>1, <2>2
<1>10. CASE EditCase \/ EditPrompt \/ UNCHANGED vars
  BY <1>10 DEF EditCase, EditPrompt, vars
<1> QED
  BY <1>1, <1>2, <1>3, <1>4, <1>5, <1>6, <1>7, <1>8, <1>9, <1>10
     DEF Next, Lab, Worker, Terminated

(* However many providers a run goes through, and wherever the agent stops *)
(* reading: the response has every call the agent was handed, in order.    *)
THEOREM TraceAlwaysComplete == Spec => []TraceIsComplete
<1>1. TraceInv => TraceIsComplete
  BY DEF TraceInv, TraceIsComplete
<1> QED
  BY <1>1, TraceInitial, TraceInductive, PTL DEF Spec
=============================================================================
