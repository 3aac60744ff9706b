------------------------------ MODULE Scoring ------------------------------
(***************************************************************************)
(* How Prompt Lab ranks prompts: pass_hat_k, the rank key of an evaluation *)
(* score, the comparison of two paired assessments and the qualification   *)
(* gate (scoring.py, and Assessment of experiment_evaluation.py).          *)
(*                                                                         *)
(* A verdict is what one assessment measured over a fixed set of cases and *)
(* seeds.  Ratios are kept as their numerators: two assessments that may   *)
(* be compared at all have the same denominators, so the numerators order  *)
(* exactly as the ratios do.                                               *)
(*   succ  successful runs (aggregate and success_rate are both this)      *)
(*   p3,p5 cases whose first 3 / first 5 repetitions all succeeded         *)
(*   hard  hard safety failures over all runs                              *)
(***************************************************************************)
EXTENDS Integers, FiniteSets

Verdict == [succ : Nat, p3 : Nat, p5 : Nat, hard : Nat]

---------------------------------------------------------------------------
(* pass_hat_k: outcomes is a set of [case, repetition, passed]. *)

Groups(outcomes) == {o.case : o \in outcomes}

RepetitionsOf(outcomes, c) == {o.repetition : o \in {x \in outcomes : x.case = c}}

(* sorted(group)[:k] *)
FirstK(reps, k) == {r \in reps : Cardinality({q \in reps : q < r}) < k}

(* None in the code: some case has fewer than k repetitions, or no case.  *)
PassHatKDefined(outcomes, k) ==
    /\ outcomes # {}
    /\ \A c \in Groups(outcomes) : Cardinality(RepetitionsOf(outcomes, c)) >= k

PassedGroups(outcomes, k) ==
    {c \in Groups(outcomes) :
        \A o \in outcomes :
            (o.case = c /\ o.repetition \in FirstK(RepetitionsOf(outcomes, c), k)) => o.passed}

(* Mutant of PassHatK: one success in k is enough (pass at k). *)
PassAtK(outcomes, k) == Cardinality({c \in Groups(outcomes) : \E o \in outcomes : o.case = c /\ o.passed})

PassHatK(outcomes, k) == Cardinality(PassedGroups(outcomes, k))

---------------------------------------------------------------------------
(* _score_rank_key: a tuple of seven numbers compared lexicographically,   *)
(* where smaller is better; FALSE orders before TRUE.                      *)

Bit(b) == IF b THEN 1 ELSE 0

(* Mutant of RankKey: ranked by whole cases only. *)
RankKeyCases(v, regression) ==
    <<Bit(v.succ = 0 /\ v.hard > 0), Bit(regression), Bit(v.hard > 0), v.hard, -v.p3, -v.p5, 0>>

RankKey(v, regression) ==
    <<Bit(v.succ = 0 /\ v.hard > 0), Bit(regression), Bit(v.hard > 0), v.hard,
      -v.succ, -v.p3, -v.p5>>

LexLess(a, b) ==
    \E i \in 1..7 : a[i] < b[i] /\ \A j \in 1..(i - 1) : a[j] = b[j]

(* compared_score: core_regression is a lower success rate than the        *)
(* reference; the reference itself carries core_regression = False.        *)
CoreRegression(v, reference) == v.succ < reference.succ

IsStrictlyBetter(v, reference) ==
    /\ ~CoreRegression(v, reference)
    /\ LexLess(RankKey(v, FALSE), RankKey(reference, FALSE))

(* Mutant of Improves: any other prompt that is no regression counts as better. *)
ImprovesLoosely(c, v, r, reference) == c # r /\ ~CoreRegression(v, reference)

(* Assessment.improves and improves_success; c and r are fingerprints. *)
Improves(c, v, r, reference) == c # r /\ IsStrictlyBetter(v, reference)

ImprovesSuccess(c, v, r, reference) ==
    Improves(c, v, r, reference) /\ v.succ > reference.succ

(* Mutant of Qualifies: pass^3 is enough. *)
QualifiesOnThree(v, reference, cases) ==
    v.hard = 0 /\ ~CoreRegression(v, reference) /\ v.p3 = cases

(* passes_qualification_gate of compared_score, over `cases' cases. *)
Qualifies(v, reference, cases) ==
    /\ v.hard = 0
    /\ ~CoreRegression(v, reference)
    /\ v.p3 = cases
    /\ v.p5 = cases

---------------------------------------------------------------------------
(* The verdicts `assess' can return on `cases' cases of `reps' repetitions: *)
(* Assessment.tla checks that it returns no other.                         *)
Realizable(cases, reps) ==
    {v \in [succ : 0..(cases * reps), p3 : 0..cases, p5 : 0..cases, hard : Nat] :
        /\ v.p5 <= v.p3
        /\ 5 * v.p5 + 3 * (v.p3 - v.p5) <= v.succ
        /\ v.succ <= cases * reps - (cases - v.p5)
        /\ v.hard > 0 => v.succ < cases * reps}
=============================================================================
