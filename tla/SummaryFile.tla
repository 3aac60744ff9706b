----------------------------- MODULE SummaryFile -----------------------------
(***************************************************************************)
(* What a reader of experiment-summary.json may rely on, at any moment and *)
(* whatever became of the process that writes it: the phases appear one by *)
(* one and in order, a verdict appears only when they are over, and what   *)
(* follows a verdict can only take it back.  Experiment implements it.     *)
(***************************************************************************)
EXTENDS Naturals

VARIABLES phase, status, improved, qualified

fileVars == <<phase, status, improved, qualified>>

Phases == <<"none", "preflight", "baseline", "search", "frozen-validation", "holdout",
            "application-verification", "finished">>

Position(p) == CHOOSE i \in DOMAIN Phases : Phases[i] = p

FileInit == phase = "none" /\ status = "RUNNING" /\ improved = FALSE /\ qualified = FALSE

(* The next phase begins; what it may claim is an improvement, once the    *)
(* holdout is over.                                                        *)
Advance ==
    /\ status = "RUNNING" /\ status' = "RUNNING"
    /\ Position(phase) < 7 /\ phase' = Phases[Position(phase) + 1]
    /\ improved' => phase' = "application-verification"
    /\ ~qualified'

(* The pipeline is over: after the application check, or after a search    *)
(* that found nothing.                                                     *)
Conclude ==
    /\ status = "RUNNING" /\ phase \in {"search", "application-verification"}
    /\ phase' = "finished"
    /\ status' \in {"QUALIFIED", "NOT_CONVERGED"}
    /\ qualified' = (status' = "QUALIFIED")
    /\ qualified' => phase = "application-verification"
    /\ improved' = improved

(* The run did not complete: nothing is claimed. *)
GiveUp ==
    /\ \/ status = "RUNNING"
       \/ phase = "finished" /\ status' \in {"CANCELLED", "SYSTEM_ERROR"}
    /\ status' \in {"CANCELLED", "SYSTEM_ERROR", "NOT_CONVERGED", "PREFLIGHT_INCONCLUSIVE"}
    /\ status' = "PREFLIGHT_INCONCLUSIVE" => phase' = "preflight"
    /\ improved' = FALSE /\ qualified' = FALSE
    /\ phase' = IF phase = "none" THEN "preflight" ELSE phase

FileNext == Advance \/ Conclude \/ GiveUp

FileSpec == FileInit /\ [][FileNext]_fileVars
=============================================================================
