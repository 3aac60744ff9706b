----------------------------- MODULE Evaluation -----------------------------
(***************************************************************************)
(* One evaluation, from KorvidUpstreamRunner.run through the worker's      *)
(* _evaluate and back to the two artifacts it leaves.  The lab reads the   *)
(* source case and the exported prompt and starts a worker, which reads    *)
(* both again, the case twice; Korvid's agent then works through the turns *)
(* of the case, its calls recorded by the observed provider on the way.    *)
(*                                                                         *)
(* Somebody may edit either file at any moment.  Any step may be the last: *)
(* a check refuses, a write fails, a signal or a crash cuts it short.  The *)
(* run may then be tried again in the same directory.                      *)
(*                                                                         *)
(* pc: catalog, prompt, launch               the lab, before the worker    *)
(*     reload, digest, load, turn, agent, report            the worker     *)
(*     accept, respond, summarise            the lab, with the answer      *)
(*     returned, refused                                                   *)
(***************************************************************************)
EXTENDS Naturals, Sequences, SequencesExt

CONSTANTS
    Prompts,        \* texts of the tier pack
    JourneyTurns,   \* turns of a journey; a scenario has one
    MaxEdits,       \* bound of the model: edits of the two files
    MaxCalls,       \* bound of the model: tool calls of a run
    MaxAttempts     \* bound of the model: runs in one directory

ASSUME EvaluationAssumption ==
    /\ Prompts # {} /\ JourneyTurns \in Nat \ {0}
    /\ MaxEdits \in Nat /\ MaxCalls \in Nat /\ MaxAttempts \in Nat \ {0}

VARIABLES
    caseFile,     \* the version of the source case on disk
    promptFile,   \* the text of the exported prompt on disk
    edits,
    attempt,      \* the number of this run in its directory
    pc,
    kind,         \* of the case: scenario or journey
    candidate,    \* the prompt under evaluation
    exported,     \* the runner has a prompt_path
    authored,     \* the version in the lab's catalog
    prompt,       \* what the worker composes with, and where it has it from
    digested,     \* the version whose bytes the worker hashed
    loaded,       \* the version it then loaded
    slipped,      \* the case was edited between those two
    providers,    \* the calls each observed provider recorded
    handed,       \* the calls the agent was handed
    turns,        \* the results of the turns
    answer,       \* the response of the worker
    response,     \* response.json
    summary       \* upstream-summary.json

files     == <<caseFile, promptFile, edits>>
request   == <<attempt, kind, candidate, exported>>
inputs    == <<authored, prompt, digested, loaded, slipped>>
agentVars == <<providers, handed, turns>>
artifacts == <<response, summary>>
vars == <<files, pc, request, inputs, agentVars, answer, artifacts>>

(* A reworded case asks something else; a regraded one only judges the     *)
(* answers in another way.                                                 *)
CaseVersions == {"reviewed", "reworded", "regraded"}

Questions(version) == IF version = "reworded" THEN "other" ELSE "original"

Unread == "unread"

Nothing == [none |-> TRUE]

Goto(from, to) == pc = from /\ pc' = to

Length == IF kind = "scenario" THEN 1 ELSE JourneyTurns

---------------------------------------------------------------------------
(* The lab, before the worker. *)

(* The campaign was made from the reviewed case; what the runner finds now *)
(* must still ask the same.                                                *)
ReadCatalog ==
    /\ Goto("catalog", "prompt")
    /\ Questions(caseFile) = Questions("reviewed")
    /\ authored' = caseFile
    /\ UNCHANGED <<files, request, prompt, digested, loaded, slipped, agentVars, answer, artifacts>>

CheckExport ==
    /\ Goto("prompt", "launch")
    /\ exported => promptFile = candidate
    /\ UNCHANGED <<files, request, inputs, agentVars, answer, artifacts>>

(* Mutant of Launch: what is in the directory is not looked at. *)
LaunchAnyway ==
    /\ Goto("launch", "reload")
    /\ caseFile = "reviewed"
    /\ prompt' = [text |-> candidate, from |-> "request"]
    /\ UNCHANGED <<files, request, authored, digested, loaded, slipped, agentVars, answer, artifacts>>

(* No evidence may be there already, and validate_source wants a checkout  *)
(* without changes.                                                        *)
Launch ==
    /\ Goto("launch", "reload")
    /\ response = Nothing /\ caseFile = "reviewed"
    /\ prompt' = [text |-> candidate, from |-> "request"]
    /\ UNCHANGED <<files, request, authored, digested, loaded, slipped, agentVars, answer, artifacts>>

---------------------------------------------------------------------------
(* The worker: _evaluate up to the run. *)

(* Mutant of Reload: the file is not compared, and not used. *)
ReloadUnread ==
    /\ Goto("reload", "digest") /\ UNCHANGED prompt
    /\ UNCHANGED <<files, request, authored, digested, loaded, slipped, agentVars, answer, artifacts>>

(* From here on the text is the one of the file, if there is one. *)
Reload ==
    /\ Goto("reload", "digest")
    /\ exported => promptFile = prompt.text
    /\ prompt' = IF exported THEN [text |-> promptFile, from |-> "file"] ELSE prompt
    /\ UNCHANGED <<files, request, authored, digested, loaded, slipped, agentVars, answer, artifacts>>

(* Mutant of Digest: the catalog's digest is not compared. *)
DigestAny ==
    /\ Goto("digest", "load")
    /\ digested' = authored
    /\ UNCHANGED <<files, request, authored, prompt, loaded, slipped, agentVars, answer, artifacts>>

Digest ==
    /\ Goto("digest", "load")
    /\ caseFile = authored
    /\ digested' = caseFile
    /\ UNCHANGED <<files, request, authored, prompt, loaded, slipped, agentVars, answer, artifacts>>

(* load_scenario or load_journey opens the file again. *)
Load ==
    /\ Goto("load", "turn")
    /\ loaded' = caseFile
    /\ UNCHANGED <<files, request, authored, prompt, digested, slipped, agentVars, answer, artifacts>>

---------------------------------------------------------------------------
(* The run: Korvid's agent and its provider, seen through the observer. *)

(* The next turn, with a provider of its own or with the last one. *)
BeginTurn ==
    /\ Goto("turn", "agent") /\ Len(turns) < Length
    /\ \/ providers' = Append(providers, <<>>)
       \/ providers # <<>> /\ UNCHANGED providers
    /\ UNCHANGED <<files, request, inputs, handed, turns, answer, artifacts>>

(* Mutant of ToolCall: the record is made after the yield, and so not at   *)
(* all when the agent lets go of the stream instead of reading on.         *)
ToolCallAfterYield ==
    /\ pc = "agent" /\ Len(handed) < MaxCalls
    /\ \E call \in {"valid", "invalid"} :
          /\ \/ providers' = [providers EXCEPT ![Len(providers)] = Append(@, call)]
             \/ UNCHANGED providers
          /\ handed' = Append(handed, call)
    /\ UNCHANGED <<files, pc, request, inputs, turns, answer, artifacts>>

(* The provider streams a tool call: it is on record before the agent has  *)
(* it, whether its arguments can be read or not.  One step, as no await    *)
(* stands between the append and the yield: neither the agent nor a        *)
(* cancellation gets a turn there.                                         *)
ToolCall ==
    /\ pc = "agent" /\ Len(handed) < MaxCalls
    /\ \E call \in {"valid", "invalid"} :
          /\ providers' = [providers EXCEPT ![Len(providers)] = Append(@, call)]
          /\ handed' = Append(handed, call)
    /\ UNCHANGED <<files, pc, request, inputs, turns, answer, artifacts>>

(* How a turn can end.  A limit of the model's own (iterations, context)   *)
(* is a result; any other error is the provider's or the runtime's: one    *)
(* that json.loads raises inside the observer, for instance.               *)
Results ==
    {r \in [error : {"none", "model_bound", "infra"}, violation : BOOLEAN, success : BOOLEAN] :
        r.success => r.error = "none"}

(* The agent may stop in the middle of a stream and lets go of it. *)
EndTurn ==
    /\ pc = "agent"
    /\ \E r \in Results : turns' = Append(turns, r)
    /\ pc' = "turn"
    /\ UNCHANGED <<files, request, inputs, providers, handed, answer, artifacts>>

(* After the last turn, or earlier if the harness gives up on a journey. *)
RunEnds ==
    /\ Goto("turn", "report") /\ turns # <<>>
    /\ UNCHANGED <<files, request, inputs, agentVars, answer, artifacts>>

---------------------------------------------------------------------------
(* The worker: the answer. *)

(* Mutant of SystemError: only the turn the run ended with. *)
LastTurnFailed == Last(turns).error = "infra"

SystemError == \E i \in DOMAIN turns : turns[i].error = "infra"

(* Mutant of HardFailure: only the turn the run ended with. *)
LastTurnViolates == Last(turns).violation

HardFailure == \E i \in DOMAIN turns : turns[i].violation

(* Mutant of Calls: those of the last provider. *)
CallsOfLast == Last(providers)

Calls == FlattenSeq(providers)

(* The verdict is the harness's; of a journey it is one of its own. *)
Verdicts == IF kind = "scenario" THEN {turns[1].success} ELSE BOOLEAN

Report ==
    /\ Goto("report", "accept") /\ ~SystemError
    /\ \E success \in Verdicts :
          answer' = [success |-> success, hard |-> HardFailure, calls |-> Calls,
                     turns |-> Len(turns), questions |-> Questions(loaded),
                     text |-> prompt.text, verified |-> exported]
    /\ UNCHANGED <<files, request, inputs, agentVars, artifacts>>

---------------------------------------------------------------------------
(* The lab, with the answer. *)

(* Mutant of Accepted: the questions are not compared. *)
AcceptedUnasked ==
    /\ answer.text = candidate /\ answer.verified = exported
    /\ answer.turns = Length /\ ~(answer.success /\ answer.hard)

(* Mutant of Accepted: a success stands whatever happened on the way. *)
AcceptedUnsafe ==
    /\ answer.questions = Questions(authored)
    /\ answer.text = candidate /\ answer.verified = exported
    /\ answer.turns = Length

(* _validate_result, _source_report_turns and EvaluationResult. *)
Accepted ==
    /\ answer.questions = Questions(authored)
    /\ answer.text = candidate /\ answer.verified = exported
    /\ answer.turns = Length /\ ~(answer.success /\ answer.hard)

Accept ==
    /\ Goto("accept", "respond") /\ Accepted
    /\ UNCHANGED <<files, request, inputs, agentVars, answer, artifacts>>

(* os.replace puts each artifact in its place as a whole. *)
WriteResponse ==
    /\ Goto("respond", "summarise")
    /\ response' = [attempt |-> attempt, success |-> answer.success, hard |-> answer.hard,
                    calls |-> answer.calls]
    /\ UNCHANGED <<files, request, inputs, agentVars, answer, summary>>

WriteSummary ==
    /\ Goto("summarise", "returned")
    /\ summary' = [attempt |-> attempt, success |-> answer.success, hard |-> answer.hard,
                   override |-> exported /\ answer.verified]
    /\ UNCHANGED <<files, request, inputs, agentVars, answer, response>>

---------------------------------------------------------------------------
Ended == {"returned", "refused"}

(* A check that fails, a worker that exits with an error, a write that     *)
(* cannot be done, a signal, a crash: nothing between here and the caller  *)
(* repairs or removes anything.                                            *)
Refuse ==
    /\ pc \notin Ended /\ pc' = "refused"
    /\ UNCHANGED <<files, request, inputs, agentVars, answer, artifacts>>

(* The run is asked for again, for any candidate. *)
TryAgain ==
    /\ pc \in Ended /\ attempt < MaxAttempts
    /\ pc' = "catalog" /\ attempt' = attempt + 1
    /\ candidate' \in Prompts /\ exported' \in BOOLEAN
    /\ authored' = Unread /\ digested' = Unread /\ loaded' = Unread /\ prompt' = Unread
    /\ slipped' = FALSE
    /\ providers' = <<>> /\ handed' = <<>> /\ turns' = <<>> /\ answer' = Nothing
    /\ UNCHANGED <<files, kind, artifacts>>

EditCase ==
    /\ edits < MaxEdits /\ edits' = edits + 1
    /\ caseFile' \in CaseVersions \ {caseFile}
    /\ slipped' = (slipped \/ pc = "load")
    /\ UNCHANGED <<promptFile, pc, request, authored, prompt, digested, loaded, agentVars, answer,
                   artifacts>>

EditPrompt ==
    /\ edits < MaxEdits /\ edits' = edits + 1
    /\ promptFile' \in Prompts \ {promptFile}
    /\ UNCHANGED <<caseFile, pc, request, inputs, agentVars, answer, artifacts>>

Lab == ReadCatalog \/ CheckExport \/ Launch \/ Accept \/ WriteResponse \/ WriteSummary

Worker == Reload \/ Digest \/ Load \/ BeginTurn \/ ToolCall \/ EndTurn \/ RunEnds \/ Report

Terminated == pc \in Ended /\ UNCHANGED vars

Next == Lab \/ Worker \/ Refuse \/ TryAgain \/ EditCase \/ EditPrompt \/ Terminated

Init ==
    /\ caseFile = "reviewed" /\ promptFile \in Prompts /\ edits = 0
    /\ attempt = 1 /\ pc = "catalog" /\ kind \in {"scenario", "journey"}
    /\ candidate \in Prompts /\ exported \in BOOLEAN
    /\ authored = Unread /\ digested = Unread /\ loaded = Unread /\ prompt = Unread
    /\ slipped = FALSE
    /\ providers = <<>> /\ handed = <<>> /\ turns = <<>> /\ answer = Nothing
    /\ response = Nothing /\ summary = Nothing

Spec == Init /\ [][Next]_vars

---------------------------------------------------------------------------
(* What is scored was a run of the model: no turn of it, the first as      *)
(* little as the last, ended in an error of the provider or the runtime;   *)
(* and a violation of safety in any turn is reported and no success        *)
(* (test_unknown_provider_runtime_failure_is_not_converted_to_quality_zero). *)
VerdictIsSound ==
    pc \in {"respond", "summarise", "returned"} =>
        \A i \in DOMAIN turns :
            /\ turns[i].error # "infra"
            /\ turns[i].violation => answer.hard /\ ~answer.success

(* The evidence has every tool call that the agent was handed, readable or *)
(* not, in the order it had them, whichever provider it came from and      *)
(* whether or not the agent read on.                                       *)
TraceIsComplete ==
    pc \in {"summarise", "returned"} => response.calls = handed

(* Whatever is edited in the meantime: the agent had the candidate, read   *)
(* from the exported file if the summary says so, and was asked what the   *)
(* catalog says; and it was judged by the catalog's version of the case,   *)
(* unless that was edited between the two reads of the worker.             *)
InputsAreAttested ==
    pc = "returned" =>
        /\ prompt.text = candidate
        /\ summary.override => prompt.from = "file"
        /\ Questions(loaded) = Questions(authored)
        /\ loaded = authored \/ slipped

(* The two artifacts never tell of different runs: a summary has its       *)
(* response beside it, with the same verdict, also after a run that was    *)
(* cut short between them was tried again; and an evaluation that is       *)
(* returned has both.                                                      *)
EvidenceIsWhole ==
    /\ summary # Nothing =>
          /\ response # Nothing /\ response.attempt = summary.attempt
          /\ response.success = summary.success /\ response.hard = summary.hard
    /\ pc = "returned" =>
          summary # Nothing /\ summary.attempt = attempt /\ summary.success = answer.success
=============================================================================
