---------------------------- MODULE MCAdaptation ----------------------------
(***************************************************************************)
(* The slow loop around the executor in one run: the summarizer, the        *)
(* reflector with both gates, the rollout of its proposals, and the overlay *)
(* on the parameters.  Between them they share rows of the database only, which each treats as open     *)
(* input; so each is explored in full while the others rest, instead of     *)
(* every combination of their states.                                       *)
(***************************************************************************)
EXTENDS Reflector, ParamsRollout, ParamsOverlay, FillSummary

VARIABLE part   \* the part that is explored

MCDefaults ==
  [p \in {"baseHalfSpreadBps", "pauseLiqCount10s"} |-> IF p \in Gains THEN 20 ELSE 30]

One(p, values) == [q \in {p} |-> values]
Answer(changes) == [changes |-> changes, rollback |-> {"maxDurationMs"}]

(* At the ratios 3.0 and 0.3 of the default; below them; a value that is    *)
(* rounded away; two changes; a text that is no number; a negative number.  *)
MCAnswers ==
  {Answer(One("baseHalfSpreadBps", {60})), Answer(One("baseHalfSpreadBps", {6})),
   Answer(One("baseHalfSpreadBps", {5})), Answer(One("pauseLiqCount10s", {4})),
   Answer([p \in DOMAIN MCDefaults |-> {30}]),
   Answer(One("baseHalfSpreadBps", {})), Answer(One("pauseLiqCount10s", {-10}))}

MCContexts ==
  [dbWriteFailures : {FALSE}, exchangeErrors : {FALSE}, dataStale : {FALSE},
   pauseCountLastHour : {0, 1}, markout10sP50 : {{}}]

mcVars == <<part, reflectorVars, vars, overlayVars, summaryVars>>

(* A part at rest is at its last instant, with nothing left to do.         *)
ReflectorRests ==
  /\ lastWindow = MaxWindows /\ lastProcessed = MaxWindows
  /\ isRunning = FALSE /\ run = NoRun
  /\ files = {} /\ proposals = << >> /\ params = Defaults
  /\ faults = 0 /\ disturbed = {} /\ answered = {MaxWindows}

SummaryRests ==
  /\ clock = LastMs
  /\ exFill = << >> /\ stored = {} /\ buffered = {} /\ enriched = {}
  /\ busy = FALSE /\ batch = {} /\ current = {} /\ mishaps = 0

(* No executor runs: what stands in the end is the built-in fallback.       *)
RolloutRests ==
  /\ rows = << >> /\ isCurrent = {0} /\ status = [p \in Proposals |-> "unsaved"]
  /\ rollout = {} /\ proc = [q \in Procs |-> Idle] /\ loaded = 0
  /\ window = FALSE /\ inForce = << >> /\ overlapped = FALSE

MCInit ==
  /\ part \in {"reflector", "rollout", "overlay", "summary"}
  /\ IF part = "reflector" THEN ReflectorInit ELSE ReflectorRests
  /\ IF part = "rollout" THEN Init ELSE RolloutRests
  /\ IF part = "summary" THEN SummaryInit ELSE SummaryRests
  /\ OverlayInit
  /\ part # "overlay" => base = CHOOSE b \in Bases : TRUE

ReflectorPart ==
  part = "reflector" /\ ReflectorNext /\ UNCHANGED <<part, vars, overlayVars, summaryVars>>
RolloutPart ==
  part = "rollout" /\ Next /\ UNCHANGED <<part, reflectorVars, overlayVars, summaryVars>>
OverlayPart ==
  part = "overlay" /\ OverlayNext /\ UNCHANGED <<part, reflectorVars, vars, summaryVars>>
SummaryPart ==
  part = "summary" /\ SummaryNext /\ UNCHANGED <<part, reflectorVars, vars, overlayVars>>

MCNext == ReflectorPart \/ RolloutPart \/ OverlayPart \/ SummaryPart

(* Of the rollout: while the process runs, timers fire, the apply timer     *)
(* within a grace period again and again, and operations are answered.  The *)
(* reflector owes nothing.                                                 *)
RolloutFairness ==
  /\ WF_vars(part = "rollout" /\ WindowOpens) /\ WF_vars(part = "rollout" /\ StartRefresh)
  /\ \A q \in Procs : WF_vars(part = "rollout" /\ GetCurrent(q)) /\ WF_vars(part = "rollout" /\ Install(q))
  /\ \A j \in Jobs : SF_vars(part = "rollout" /\ StartApply(j)) /\ WF_vars(part = "rollout" /\ Apply(j))

MCSpec ==
  /\ MCInit /\ [][MCNext]_mcVars
  /\ ReflectorFairness /\ RolloutFairness /\ SummaryFairness
=============================================================================
