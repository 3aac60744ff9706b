----------------------------- MODULE Assessment -----------------------------
(***************************************************************************)
(* assess: every case is run Repetitions times, in order, by a runner that *)
(* checks each answer of the worker (KorvidUpstreamRunner.run), and the    *)
(* records are condensed into one score.  The first failure ends it.       *)
(*                                                                         *)
(* A record is [case, repetition, passed, hard]; its mode is kept in a set *)
(* of its own, because all that is ever asked of it is whether they agree. *)
(***************************************************************************)
EXTENDS Scoring, Sequences, SequencesExt

CONSTANTS
    Cases,          \* number of cases
    Repetitions,    \* evaluation.repetitions
    MaxHard         \* bound of the model: hard failures reported for one run

ASSUME AssessmentAssumption ==
    Cases \in Nat \ {0} /\ Repetitions \in Nat \ {0} /\ MaxHard \in Nat

VARIABLES
    status,     \* running, assessed or raised
    records,
    modes,
    score       \* the verdict, once assessed

vars == <<status, records, modes, score>>

---------------------------------------------------------------------------
NoScore == [succ |-> -1, p3 |-> -1, p5 |-> -1, hard |-> -1]

NextCase == (Len(records) \div Repetitions) + 1

NextRepetition == (Len(records) % Repetitions) + 1

Complete == Len(records) = Cases * Repetitions

(* Mutant of Consistent: hard failures may come with a success. *)
AnythingGoes(success, hard) == TRUE

(* A success beside a hard failure is no result: EvaluationResult refuses  *)
(* it, and assess with it.                                                 *)
Consistent(success, hard) == ~(success /\ hard > 0)

RunReturns ==
    /\ status = "running" /\ ~Complete
    /\ \E success \in BOOLEAN, hard \in 0..MaxHard, mode \in {"live", "scripted"} :
          /\ modes' = modes \union {mode}
          /\ IF Consistent(success, hard)
             THEN /\ records' = Append(records, [case |-> NextCase, repetition |-> NextRepetition,
                                                 passed |-> success, hard |-> hard])
                  /\ UNCHANGED status
             ELSE status' = "raised" /\ UNCHANGED records
    /\ UNCHANGED score

(* The worker fails, or its answer is not that of this case, this prompt,  *)
(* this model and the reviewed product; a malformed trace; no verdict.     *)
RunRaises ==
    /\ status = "running" /\ ~Complete /\ status' = "raised"
    /\ UNCHANGED <<records, modes, score>>

Outcomes(recs) == {[case |-> r.case, repetition |-> r.repetition, passed |-> r.passed] : r \in ToSet(recs)}

Passed(recs) == Cardinality({i \in DOMAIN recs : recs[i].passed})
HardFailures(recs) == FoldLeft(LAMBDA sum, r : sum + r.hard, 0, recs)

VerdictOf(recs) ==
    [succ |-> Passed(recs), hard |-> HardFailures(recs),
     p3   |-> PassHatK(Outcomes(recs), 3), p5 |-> PassHatK(Outcomes(recs), 5)]

(* Mixed evidence and too few repetitions make no assessment. *)
Conclude ==
    /\ status = "running" /\ Complete
    /\ IF Cardinality(modes) = 1 /\ PassHatKDefined(Outcomes(records), 5)
       THEN status' = "assessed" /\ score' = VerdictOf(records)
       ELSE status' = "raised" /\ UNCHANGED score
    /\ UNCHANGED <<records, modes>>

Terminated == status # "running" /\ UNCHANGED vars

Next == RunReturns \/ RunRaises \/ Conclude \/ Terminated

Init == status = "running" /\ records = <<>> /\ modes = {} /\ score = NoScore

Spec == Init /\ [][Next]_vars

---------------------------------------------------------------------------
(* An assessment yields one of the verdicts that Realizable describes, and *)
(* which the search and the experiment are modelled with: pass^5 is within *)
(* pass^3, both are backed by that many successes, and a hard failure      *)
(* costs a success.  It counts every repetition of every case once; what   *)
(* ends before that yields nothing.                                        *)
VerdictIsRealizable ==
    IF status = "assessed"
    THEN /\ score \in Realizable(Cases, Repetitions)
         /\ Cardinality(Outcomes(records)) = Cases * Repetitions
    ELSE score = NoScore

(* The rank is monotone in the evidence: were one failed run a success,    *)
(* the assessment would be strictly better, and so never lose to itself    *)
(* (_score_rank_key).                                                      *)
Repaired(i) == [records EXCEPT ![i].passed = TRUE, ![i].hard = 0]

MoreSuccessIsBetter ==
    status = "assessed" =>
        \A i \in DOMAIN records :
            ~records[i].passed => IsStrictlyBetter(VerdictOf(Repaired(i)), score)

(* Nothing passes the gate, whatever it is compared with, unless the first *)
(* five repetitions of every case succeeded, without one hard failure      *)
(* anywhere (passes_qualification_gate).                                   *)
GateIsUnanimous ==
    status = "assessed" /\ Qualifies(score, score, Cases) =>
        \A i \in DOMAIN records :
            records[i].hard = 0 /\ (records[i].repetition <= 5 => records[i].passed)
=============================================================================
