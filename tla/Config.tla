------------------------------- MODULE Config -------------------------------
(***************************************************************************)
(* load_experiment: the experiment file is read part by part, and refused  *)
(* at the first part that is wrong.  What it says is chosen piece by piece *)
(* as it is read, so that every short file is a behaviour; of the fields   *)
(* that no later computation depends on, only the refusal remains, of      *)
(* those read before the splits (Other) and after the totals (Rest).       *)
(*                                                                         *)
(* A reference is a pair <<kind, id>>: scenarios/<id> or journeys/<id>.    *)
(***************************************************************************)
EXTENDS Integers, Sequences, FiniteSets, SequencesExt

CONSTANTS
    References,      \* the references a file may use
    Names, Seeds,    \* of the search stages
    MaxRefs,         \* bounds of the model: references in a split,
    MaxStages,       \*   stages and seeds in a stage,
    MaxNumber        \*   and any number of the file

ASSUME ConfigAssumption ==
    /\ MaxRefs \in Nat /\ MaxStages \in Nat /\ MaxNumber \in Nat /\ Seeds \subseteq Nat

Splits == <<"train", "validation", "holdout">>

VARIABLES
    pc,             \* other, splits, repetitions, stages, totals, rest; accepted, refused
    split,          \* the split that is read, as an index of Splits
    caseSplits, seen, seenIds,
    repetitions,
    stages, names, seeds,
    total           \* total_metric_calls

splitVars == <<split, caseSplits, seen, seenIds>>
stageVars == <<stages, names, seeds>>
vars == <<pc, splitVars, repetitions, stageVars, total>>

Goto(from, to) == pc = from /\ pc' = to

Refuse(from) == Goto(from, "refused") /\ UNCHANGED <<splitVars, repetitions, stageVars, total>>

---------------------------------------------------------------------------
(* Unknown or missing fields, the runtime, the two models. *)
Other ==
    \/ Goto("other", "splits") /\ UNCHANGED <<splitVars, repetitions, stageVars, total>>
    \/ Refuse("other")

(* Mutant of Used: a scenario and a journey may share an id. *)
UsedReference(ref) == ref \in seen

Used(ref) == ref \in seen \/ ref[2] \in seenIds

ReadReference ==
    \E ref \in References :
        \/ Used(ref) /\ Refuse("splits")
        \/ /\ ~Used(ref) /\ pc = "splits" /\ Len(caseSplits[split]) < MaxRefs
           /\ caseSplits' = [caseSplits EXCEPT ![split] = Append(@, ref)]
           /\ seen' = seen \union {ref} /\ seenIds' = seenIds \union {ref[2]}
           /\ UNCHANGED <<pc, split, repetitions, stageVars, total>>

(* Mutant of EndSplit: what was seen is forgotten from split to split. *)
EndSplitForgets ==
    /\ caseSplits[split] # <<>>
    /\ Goto("splits", IF split = Len(Splits) THEN "repetitions" ELSE "splits")
    /\ split' = (IF split = Len(Splits) THEN split ELSE split + 1)
    /\ seen' = {} /\ seenIds' = {}
    /\ UNCHANGED <<caseSplits, repetitions, stageVars, total>>

EndSplit ==
    IF caseSplits[split] = <<>> THEN Refuse("splits")
    ELSE /\ Goto("splits", IF split = Len(Splits) THEN "repetitions" ELSE "splits")
         /\ split' = (IF split = Len(Splits) THEN split ELSE split + 1)
         /\ UNCHANGED <<caseSplits, seen, seenIds, repetitions, stageVars, total>>

ReadRepetitions ==
    \E n \in 0..MaxNumber :
        IF n < 5 THEN Refuse("repetitions")
        ELSE /\ Goto("repetitions", "stages") /\ repetitions' = n
             /\ UNCHANGED <<splitVars, stageVars, total>>

(* Mutant of StageRefused: seeds are compared within their stage only. *)
StageRefusedAlone(name, calls, own) ==
    name \in names \/ calls = 0 \/ own = <<>> \/ Cardinality(ToSet(own)) < Len(own)

StageRefused(name, calls, own) ==
    \/ name \in names \/ ToSet(own) \intersect seeds # {}
    \/ calls = 0 \/ own = <<>> \/ Cardinality(ToSet(own)) < Len(own)

ReadStage ==
    /\ Len(stages) < MaxStages
    /\ \E name \in Names, calls \in 0..1, own \in SeqOf(Seeds, 2) :
          IF StageRefused(name, calls, own) THEN Refuse("stages")
          ELSE /\ pc = "stages"
               /\ stages' = Append(stages, [name |-> name, calls |-> calls, seeds |-> own])
               /\ names' = names \union {name} /\ seeds' = seeds \union ToSet(own)
               /\ UNCHANGED <<pc, splitVars, repetitions, total>>

EndStages ==
    IF stages = <<>> THEN Refuse("stages")
    ELSE Goto("stages", "totals") /\ UNCHANGED <<splitVars, repetitions, stageVars, total>>

(* Mutant of Planned: a stage is paid for once, whatever its seeds. *)
PlannedOnce == FoldLeft(LAMBDA sum, s : sum + s.calls, 0, stages)

Planned == FoldLeft(LAMBDA sum, s : sum + s.calls * Len(s.seeds), 0, stages)

ReadTotals ==
    \E n \in 0..MaxNumber :
        IF n = 0 \/ Planned > n THEN Refuse("totals")
        ELSE Goto("totals", "rest") /\ total' = n /\ UNCHANGED <<splitVars, repetitions, stageVars>>

(* The campaign's name, the serving, the seed of the evaluation and the    *)
(* other limits of the search.                                             *)
Rest ==
    \/ Goto("rest", "accepted") /\ UNCHANGED <<splitVars, repetitions, stageVars, total>>
    \/ Refuse("rest")

Terminated == pc \in {"accepted", "refused"} /\ UNCHANGED vars

Next ==
    \/ Other \/ ReadReference \/ EndSplit \/ ReadRepetitions \/ ReadStage \/ EndStages \/ ReadTotals
    \/ Rest \/ Terminated

Init ==
    /\ pc = "other" /\ split = 1 /\ caseSplits = [i \in 1..3 |-> <<>>] /\ seen = {} /\ seenIds = {}
    /\ repetitions = 0 /\ stages = <<>> /\ names = {} /\ seeds = {} /\ total = 0

Spec == Init /\ [][Next]_vars

---------------------------------------------------------------------------
(* The attempts of the search, in order: a stage for each of its seeds     *)
(* (_search).                                                              *)
Attempts == FlattenSeq([i \in DOMAIN stages |->
                [j \in DOMAIN stages[i].seeds |-> [calls |-> stages[i].calls, seed |-> stages[i].seeds[j]]]])

(* A case belongs to one split and is named once, as a scenario or as a    *)
(* journey: the holdout that qualifies a prompt was never trained on       *)
(* (README 3).                                                             *)
HoldoutIsUnseen ==
    pc = "accepted" =>
        \A i, j \in 1..3 :
            \A a \in DOMAIN caseSplits[i], b \in DOMAIN caseSplits[j] :
                caseSplits[i][a][2] = caseSplits[j][b][2] => i = j /\ a = b

(* Every attempt of an accepted plan is paid for in full and has a seed of *)
(* its own, and an assessment has the repetitions that pass^5 needs: the   *)
(* assumptions of the other modules on their constants.                    *)
PlanIsCovered ==
    pc = "accepted" =>
        /\ repetitions >= 5 /\ Attempts # <<>>
        /\ FoldLeft(LAMBDA sum, a : sum + a.calls, 0, Attempts) <= total
        /\ \A i \in DOMAIN Attempts : Attempts[i].calls > 0
        /\ \A i, j \in DOMAIN Attempts : Attempts[i].seed = Attempts[j].seed => i = j
=============================================================================
