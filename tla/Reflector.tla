----------------------------- MODULE Reflector ------------------------------
(***************************************************************************)
(* The llm-reflector: an interval worker that, for the last complete       *)
(* window, fetches metrics and parameters, asks the model for a proposal,  *)
(* gates it, logs it to a file and saves it; and the executor's decisions  *)
(* about saved proposals, each taken as one step (ParamsRollout has their  *)
(* steps), which change the parameters while a reflection is under way.    *)
(*                                                                         *)
(* An action is the code from one await to the next.  What a prompt says   *)
(* and what a model makes of it is open: any member of Answers, or none.   *)
(***************************************************************************)
EXTENDS ParamGate, Sequences

CONSTANTS
  Answers,       \* proposals the model may answer with, as in ParamGate
  Defaults,      \* the seeded row of strategy_params
  Contexts,      \* operational contexts the executor may see
  MaxPauses, MinMarkout,  \* limits of its operational gates
  MaxWindows,    \* bound: windows that end
  MaxFaults      \* bound: failed runs and restarts

(* Integer columns hold integers; a proposed value is a number or none.     *)
ASSUME ReflectorAssumption ==
  /\ MaxWindows \in Nat /\ MaxFaults \in Nat
  /\ DOMAIN Defaults \subseteq ALLOWED_PARAM_KEYS
  /\ Defaults \in [DOMAIN Defaults -> Int]
  /\ \A p \in DOMAIN Defaults : p \in IntegerParams => Defaults[p] % Tenth = 0
  /\ \A answer \in Answers : \A p \in DOMAIN answer.changes : answer.changes[p] \subseteq Int

VARIABLES
  lastWindow,    \* the last complete window, 0 before the first one ends
  lastProcessed, \* the window guard: lastProcessedKey, 0 for null
  isRunning,     \* the worker's in-flight guard
  run,           \* the reflection under way: its suspended locals
  files,         \* reasoning logs completely written
  proposals,     \* rows of llm_proposal
  params,        \* the current row of strategy_params
  faults,        \* failed runs and restarts so far
  disturbed,     \* history: windows of a restart or an INSERT of unknown outcome
  answered       \* history: windows with a proposal that was saved or refused

guards == <<lastProcessed, isRunning>>
reflectorVars == <<lastWindow, guards, run, files, proposals, params, faults, disturbed, answered>>

NoRun == [pc |-> "idle", window |-> 0, base |-> Defaults, proposal |-> {}, file |-> 0]

ReflectorInit ==
  /\ lastWindow = 0
  /\ lastProcessed = 0
  /\ isRunning = FALSE
  /\ run = NoRun
  /\ files = {}
  /\ proposals = << >>
  /\ params = Defaults
  /\ faults = 0
  /\ disturbed = {}
  /\ answered = {}

(* getLastCompleteWindow: the clock passes the end of a window.            *)
WindowEnds ==
  /\ lastWindow < MaxWindows
  /\ lastWindow' = lastWindow + 1
  /\ UNCHANGED <<guards, run, files, proposals, params, faults, disturbed, answered>>

At(pc) == run.pc = pc

(* The worker's interval fires: nothing happens while a run is in flight,  *)
(* or for a window that is marked.                                         *)
StartReflection ==
  /\ ~isRunning
  /\ lastWindow # 0 /\ lastWindow # lastProcessed
  /\ isRunning' = TRUE
  /\ run' = [NoRun EXCEPT !.pc = "fetch", !.window = lastWindow]
  /\ UNCHANGED <<lastWindow, lastProcessed, files, proposals, params, faults, disturbed, answered>>

EndRun == isRunning' = FALSE /\ run' = NoRun

(* Mutant: after an error the window counts as processed as well.          *)
EndWithErrorMarked == EndRun /\ lastProcessed' = run.window

(* runHourlyReflection on an error: the window is left for the next tick.  *)
EndWithError == EndRun /\ UNCHANGED lastProcessed

(* On success, and on a proposal the gate refused.                         *)
EndProcessed ==
  /\ EndRun
  /\ lastProcessed' = run.window
  /\ answered' = answered \cup {run.window}

(* fetchInput: what matters later are the current parameters.              *)
FetchInput ==
  /\ At("fetch")
  /\ run' = [run EXCEPT !.pc = "agent", !.base = params]
  /\ UNCHANGED <<lastWindow, guards, files, proposals, params, faults, disturbed, answered>>

(* The queries fail, the model does not answer, or not with JSON that the   *)
(* schema accepts, or the directory or the file cannot be written.         *)
RunFails ==
  /\ run.pc \in {"fetch", "agent", "file"}
  /\ faults < MaxFaults
  /\ EndWithError
  /\ faults' = faults + 1
  /\ UNCHANGED <<lastWindow, files, proposals, params, disturbed, answered>>

(* generateProposal and the gate of validateAndPersist.                    *)
Propose(answer) ==
  /\ At("agent")
  /\ SchemaAccepts(answer)
  /\ IF ReflectorAccepts(answer, run.base)
     THEN /\ run' = [run EXCEPT !.pc = "file", !.proposal = {answer}]
          /\ UNCHANGED <<guards, answered>>
     ELSE EndProcessed
  /\ UNCHANGED <<lastWindow, files, proposals, params, faults, disturbed>>

NewFile == Cardinality(files) + 1

(* Mutant: the row is saved before, and whether or not, its log is.        *)
WriteFileLater ==
  /\ At("file")
  /\ run' = [run EXCEPT !.pc = "save", !.file = NewFile]
  /\ UNCHANGED <<lastWindow, guards, files, proposals, params, faults, disturbed, answered>>

(* writeJsonLog, under a new proposal id.                                  *)
WriteFile ==
  /\ At("file")
  /\ files' = files \cup {NewFile}
  /\ run' = [run EXCEPT !.pc = "save", !.file = NewFile]
  /\ UNCHANGED <<lastWindow, guards, proposals, params, faults, disturbed, answered>>

Row(answer) ==
  [window |-> run.window, base |-> run.base, file |-> run.file,
   changes |-> answer.changes, rollback |-> answer.rollback, status |-> "pending"]

(* saveProposal succeeds.                                                  *)
Save ==
  /\ At("save")
  /\ \E answer \in run.proposal : proposals' = Append(proposals, Row(answer))
  /\ EndProcessed
  /\ UNCHANGED <<lastWindow, files, params, faults, disturbed>>

(* It fails; the row may be there all the same.                            *)
SaveFails ==
  /\ At("save") /\ faults < MaxFaults
  /\ \E answer \in run.proposal : proposals' \in {proposals, Append(proposals, Row(answer))}
  /\ EndWithError
  /\ faults' = faults + 1
  /\ disturbed' = disturbed \cup {run.window}
  /\ UNCHANGED <<lastWindow, files, params, answered>>

(* The process is restarted: the guards are in memory only.                *)
Restart ==
  /\ faults < MaxFaults
  /\ EndRun
  /\ lastProcessed' = 0
  /\ faults' = faults + 1
  /\ disturbed' = disturbed \cup {lastProcessed, run.window}
  /\ UNCHANGED <<lastWindow, files, proposals, params, answered>>

(* tryApplyProposal, with the parameters current by then.                  *)
ExecutorDecides(i, context) ==
  LET row == proposals[i]
      accepted == /\ ExecutorAccepts(row, params)
                  /\ OperationalGates(context, MaxPauses, MinMarkout)
  IN  /\ row.status = "pending"
      /\ proposals' = [proposals EXCEPT ![i].status = IF accepted THEN "applied" ELSE "rejected"]
      /\ params' = IF accepted THEN ApplyChanges(params, row.changes) ELSE params
      /\ UNCHANGED <<lastWindow, guards, run, files, faults, disturbed, answered>>

ProposeAny == \E answer \in Answers : Propose(answer)

ReflectorNext ==
  \/ WindowEnds \/ StartReflection \/ FetchInput \/ RunFails \/ ProposeAny
  \/ WriteFile \/ Save \/ SaveFails \/ Restart
  \/ \E i \in DOMAIN proposals, context \in Contexts : ExecutorDecides(i, context)

(* The interval fires, and what a run waits for is answered.               *)
ReflectorFairness ==
  /\ WF_reflectorVars(WindowEnds) /\ WF_reflectorVars(StartReflection)
  /\ WF_reflectorVars(FetchInput) /\ WF_reflectorVars(ProposeAny)
  /\ WF_reflectorVars(WriteFile) /\ WF_reflectorVars(Save)

-----------------------------------------------------------------------------
RowsOf(window) == {i \in DOMAIN proposals : proposals[i].window = window}

(* 13.1 and the comment "only insert to DB if file write succeeded": a      *)
(* proposal can be traced to its reasoning log, over failures and restarts. *)
(* A window gets one proposal, unless a restart or an INSERT whose outcome  *)
(* was not known made the worker take it up again.                         *)
ProposalsAccounted ==
  /\ \A i \in DOMAIN proposals :
       /\ proposals[i].file \in files
       /\ \A j \in DOMAIN proposals \ {i} : proposals[j].file # proposals[i].file
  /\ \A window \in 1 .. MaxWindows : Cardinality(RowsOf(window)) <= 1 \/ window \in disturbed

(* The two copies of the gate agree: what the reflector let through is not  *)
(* refused by the executor as long as the parameters are the same.         *)
GatesAgree ==
  \A i \in DOMAIN proposals :
    proposals[i].base = params => ExecutorAccepts(proposals[i], params)

(* The parameters a step changes.                                          *)
Changed == {p \in DOMAIN params : params'[p] # params[p]}

WithinTenPercent(old, new) == 10 * new <= 11 * old /\ 10 * new >= 9 * old

(* "At most two parameters, each within 10 %" (10.2, 10.5, and the header   *)
(* of the reflector's gate).  The tables of both gates allow ratios up to   *)
(* 3, 5 and 10, and of a value 0 any change; and integers are rounded after *)
(* the check, so that a threshold of 3 may become 0.                       *)
ChangesWithinTenPercent ==
  [][Cardinality(Changed) <= MaxChanges
       /\ \A p \in Changed : WithinTenPercent(params[p], params'[p])]_reflectorVars

(* An error is tried again: for the window that stays the last one there is *)
(* an answer in the end, which was saved or refused.                       *)
WindowAnswered == lastWindow = MaxWindows ~> MaxWindows \in answered
=============================================================================
