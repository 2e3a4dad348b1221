---------------------------- MODULE ParamsRollout ----------------------------
(***************************************************************************)
(* How strategy parameters change: proposals of the llm-reflector, the     *)
(* executor's apply loop (proposal-applier.ts), its refresh loop, and the   *)
(* rows of strategy_params, llm_proposal and param_rollout they share.     *)
(*                                                                         *)
(* An action is one database operation together with the code up to the    *)
(* next one; a failed operation has no effect in the database.  The apply  *)
(* loop polls by setInterval with no in-flight guard, so Jobs of them may  *)
(* overlap.  What the gates decide about a proposal is open; a row stands  *)
(* for its contents.                                                       *)
(***************************************************************************)
EXTENDS Naturals, Sequences, FiniteSets

CONSTANTS
  Jobs,          \* apply-loop callbacks that may be in flight at once
  Proposals,     \* proposals, numbered by their age: 1 is the oldest
  MaxRows,       \* bound: rows of strategy_params
  RefreshOn,     \* PARAMS_REFRESH_ENABLED
  DbFails,       \* may database operations fail?
  Crashes        \* may the executor die?

ASSUME RolloutAssumption ==
  /\ Proposals \subseteq Nat \ {0}
  /\ {RefreshOn, DbFails, Crashes} \subseteq BOOLEAN
  /\ MaxRows \in Nat
  /\ Jobs \cap {"main", "refresh"} = {}

VARIABLES
  rows,      \* strategy_params: the proposal a row comes from (Seed for defaults)
             \* and its base
  isCurrent, \* rows with isCurrent
  status,    \* llm_proposal.status
  rollout,   \* param_rollout
  proc,      \* jobs, the refresh callback and startup: their suspended locals
  loaded,    \* the row the executor quotes with, 0 for the built-in fallback
  window,    \* isAtTimeBoundary
  inForce,   \* history: rows in the order in which they became current
  overlapped \* history: have two callbacks been in flight at once?

tables == <<rows, isCurrent, status, rollout>>
history == <<inForce, overlapped>>
vars == <<tables, proc, loaded, window, history>>

Seed == 0
Procs == Jobs \cup {"refresh", "main"}

Idle == [pc |-> "idle", base |-> 0, proposal |-> 0, row |-> 0, unset |-> {}]

Init ==
  /\ rows = << >>
  /\ isCurrent = {}
  /\ status = [p \in Proposals |-> "unsaved"]
  /\ rollout = {}
  /\ proc = [q \in Procs |-> IF q = "main" THEN [Idle EXCEPT !.pc = "select"] ELSE Idle]
  /\ loaded = 0
  /\ window = FALSE
  /\ inForce = << >>
  /\ overlapped = FALSE

Awaits(q, pc) == proc[q].pc = pc
Step(q, changed) == proc' = [proc EXCEPT ![q] = changed]
Goto(q, pc) == Step(q, [proc[q] EXCEPT !.pc = pc])
Stop(q) == Step(q, Idle)

-----------------------------------------------------------------------------
(* The reflector, and the clock                                            *)

(* saveProposal; proposals arrive in the order of their numbers.           *)
SaveProposal(p) ==
  /\ status[p] = "unsaved"
  /\ \A older \in Proposals : older < p => status[older] # "unsaved"
  /\ status' = [status EXCEPT ![p] = "pending"]
  /\ UNCHANGED <<rows, isCurrent, rollout, proc, loaded, window, history>>

(* isAtTimeBoundary becomes true for the grace period, and false again.     *)
WindowOpens ==
  /\ ~window
  /\ window' = TRUE
  /\ UNCHANGED <<tables, proc, loaded, history>>

WindowCloses ==
  /\ window
  /\ window' = FALSE
  /\ UNCHANGED <<tables, proc, loaded, history>>

-----------------------------------------------------------------------------
(* getCurrentParams, for startup, refresh and apply                        *)

Started == Awaits("main", "idle")

(* A timer starts callback q, whatever is in flight.                       *)
Begin(q) ==
  /\ Step(q, [Idle EXCEPT !.pc = "select"])
  /\ overlapped' = (overlapped \/ \E other \in Procs \ {q} : ~Awaits(other, "idle"))
  /\ UNCHANGED <<tables, loaded, window, inForce>>

StartRefresh ==
  /\ RefreshOn /\ Started /\ Awaits("refresh", "idle")
  /\ Begin("refresh")

StartApply(j) ==
  /\ Started /\ Awaits(j, "idle")
  /\ window
  /\ Begin(j)

(* With the current row known, the apply loop asks for proposals; the two   *)
(* others install the row.                                                 *)
AfterSelect(q) == IF q \in Jobs THEN "pending" ELSE "install"

(* Mutant: the query forgets is_current.                                   *)
SelectAnyRow(q) ==
  /\ Awaits(q, "select")
  /\ IF isCurrent = {}
     THEN Goto(q, "seed")
     ELSE \E r \in DOMAIN rows : Step(q, [proc[q] EXCEPT !.pc = AfterSelect(q), !.base = r])
  /\ UNCHANGED <<tables, loaded, window, history>>

(* SELECT ... LIMIT 1: any current row will do.                            *)
SelectCurrent(q) ==
  /\ Awaits(q, "select")
  /\ IF isCurrent = {}
     THEN Goto(q, "seed")
     ELSE \E r \in isCurrent : Step(q, [proc[q] EXCEPT !.pc = AfterSelect(q), !.base = r])
  /\ UNCHANGED <<tables, loaded, window, history>>

(* The seeding transaction: its UPDATE sees what is committed by now, and   *)
(* its effects show at the commit.                                         *)
SeedBegin(q) ==
  /\ Awaits(q, "seed")
  /\ Step(q, [proc[q] EXCEPT !.pc = "seedCommit", !.unset = isCurrent])
  /\ UNCHANGED <<tables, loaded, window, history>>

NewRow(proposal, base) == Append(rows, [proposal |-> proposal, base |-> base])
NextId == Len(rows) + 1

SeedCommit(q) ==
  /\ Awaits(q, "seedCommit")
  /\ NextId <= MaxRows
  /\ rows' = NewRow(Seed, 0)
  /\ isCurrent' = (isCurrent \ proc[q].unset) \cup {NextId}
  /\ inForce' = Append(inForce, NextId)
  /\ Step(q, [proc[q] EXCEPT !.pc = AfterSelect(q), !.base = NextId, !.unset = {}])
  /\ UNCHANGED <<status, rollout, loaded, window, overlapped>>

-----------------------------------------------------------------------------
(* processPendingProposals and tryApplyProposal                            *)

(* Mutant: the query also returns applied proposals.                       *)
SelectUndecided(j) ==
  LET waiting == {p \in Proposals : status[p] \in {"pending", "applied"}}
  IN  /\ Awaits(j, "pending")
      /\ IF waiting = {}
         THEN Stop(j)
         ELSE \E p \in waiting, pc \in {"create", "reject"} :
                Step(j, [proc[j] EXCEPT !.pc = pc, !.proposal = p])
      /\ UNCHANGED <<tables, loaded, window, history>>

(* getPendingProposals has no ORDER BY: its first row is any of them.  The  *)
(* format, the core validation and the operational gates then accept or    *)
(* reject the proposal.                                                    *)
SelectPending(j) ==
  LET waiting == {p \in Proposals : status[p] = "pending"}
  IN  /\ Awaits(j, "pending")
      /\ IF waiting = {}
         THEN Stop(j)
         ELSE \E p \in waiting, pc \in {"create", "reject"} :
                Step(j, [proc[j] EXCEPT !.pc = pc, !.proposal = p])
      /\ UNCHANGED <<tables, loaded, window, history>>

(* updateProposalStatus for either outcome.                                *)
MarkStatus(j) ==
  LET applied == Awaits(j, "markApplied")
  IN  /\ applied \/ Awaits(j, "reject")
      /\ status' = [status EXCEPT ![proc[j].proposal] = IF applied THEN "applied" ELSE "rejected"]
      /\ Goto(j, IF applied THEN "auditApply" ELSE "auditReject")
      /\ UNCHANGED <<rows, isCurrent, rollout, loaded, window, history>>

(* saveParamRollout for either outcome.                                    *)
Audit(j) ==
  LET applied == Awaits(j, "auditApply")
  IN  /\ applied \/ Awaits(j, "auditReject")
      /\ rollout' = rollout \cup
           {[proposal |-> proc[j].proposal, action |-> IF applied THEN "apply" ELSE "reject",
             from |-> proc[j].base, to |-> proc[j].row]}
      /\ IF applied THEN Goto(j, "install") ELSE Stop(j)
      /\ UNCHANGED <<rows, isCurrent, status, loaded, window, history>>

CreateRow(j) ==
  /\ Awaits(j, "create")
  /\ NextId <= MaxRows
  /\ rows' = NewRow(proc[j].proposal, proc[j].base)
  /\ Step(j, [proc[j] EXCEPT !.pc = "unset", !.row = NextId])
  /\ UNCHANGED <<isCurrent, status, rollout, loaded, window, history>>

(* Mutant: the old rows stay current.                                      *)
UnsetNothing(j) ==
  /\ Awaits(j, "unset")
  /\ Goto(j, "set")
  /\ UNCHANGED <<tables, loaded, window, history>>

(* setCurrentParams, two UPDATEs without a transaction.                    *)
UnsetCurrent(j) ==
  /\ Awaits(j, "unset")
  /\ isCurrent' = {}
  /\ Goto(j, "set")
  /\ UNCHANGED <<rows, status, rollout, loaded, window, history>>

SetCurrent(j) ==
  /\ Awaits(j, "set")
  /\ isCurrent' = isCurrent \cup {proc[j].row}
  /\ inForce' = Append(inForce, proc[j].row)
  /\ Goto(j, "markApplied")
  /\ UNCHANGED <<rows, status, rollout, loaded, window, overlapped>>

-----------------------------------------------------------------------------
(* In-memory parameters, failures and restart                              *)

(* Mutant: the refresh loop only fills in missing parameters.              *)
InstallFirst(q) ==
  /\ Awaits(q, "install")
  /\ loaded' = IF q \in Jobs THEN proc[q].row ELSE IF loaded = 0 THEN proc[q].base ELSE loaded
  /\ Stop(q)
  /\ UNCHANGED <<tables, window, history>>

(* The end of each callback: the row it selected or created is used from    *)
(* now on, whatever was installed while it waited.  (The signature check of *)
(* the refresh loop only decides whether the overlay is reset as well.)     *)
Install(q) ==
  /\ Awaits(q, "install")
  /\ loaded' = IF q \in Jobs THEN proc[q].row ELSE proc[q].base
  /\ Stop(q)
  /\ UNCHANGED <<tables, window, history>>

Operations ==
  {"select", "seed", "seedCommit", "pending", "create", "unset", "set",
   "reject", "auditReject", "markApplied", "auditApply"}

(* Mutant: an error of setCurrentParams is not looked at.                  *)
FailUnchecked(q) ==
  /\ DbFails
  /\ proc[q].pc \in Operations
  /\ CASE Awaits(q, "reject") -> Goto(q, "auditReject")
       [] Awaits(q, "unset") \/ Awaits(q, "set") -> Goto(q, "markApplied")
       [] Awaits(q, "markApplied") -> Goto(q, "auditApply")
       [] Awaits(q, "auditApply") -> Goto(q, "install")
       [] OTHER -> Stop(q)
  /\ UNCHANGED <<tables, loaded, window, history>>

(* The results of updateProposalStatus and saveParamRollout are not looked  *)
(* at; any other error ends the callback.                                  *)
Fail(q) ==
  /\ DbFails
  /\ proc[q].pc \in Operations
  /\ CASE Awaits(q, "reject") -> Goto(q, "auditReject")
       [] Awaits(q, "markApplied") -> Goto(q, "auditApply")
       [] Awaits(q, "auditApply") -> Goto(q, "install")
       [] OTHER -> Stop(q)
  /\ UNCHANGED <<tables, loaded, window, history>>

(* The process dies; a new one begins with the built-in parameters and      *)
(* loads the current row.                                                  *)
Crash ==
  /\ Crashes
  /\ Started
  /\ proc' = [q \in Procs |-> IF q = "main" THEN [Idle EXCEPT !.pc = "select"] ELSE Idle]
  /\ loaded' = 0
  /\ UNCHANGED <<tables, window, history>>

-----------------------------------------------------------------------------
GetCurrent(q) == SelectCurrent(q) \/ SeedBegin(q) \/ SeedCommit(q)

Apply(j) ==
  SelectPending(j) \/ MarkStatus(j) \/ Audit(j) \/ CreateRow(j) \/ UnsetCurrent(j) \/ SetCurrent(j)

Next ==
  \/ \E p \in Proposals : SaveProposal(p)
  \/ WindowOpens \/ WindowCloses \/ StartRefresh \/ Crash
  \/ \E q \in Procs : GetCurrent(q) \/ Install(q) \/ Fail(q)
  \/ \E j \in Jobs : StartApply(j) \/ Apply(j)

Spec == Init /\ [][Next]_vars

-----------------------------------------------------------------------------
InForce == {inForce[i] : i \in DOMAIN inForce}
AppliedRows(p) == {r \in InForce : rows[r].proposal = p}

(* requirements.md on strategy_params.is_current, and the comment of the    *)
(* seeding transaction: at most one row is current.  So it is over failing  *)
(* operations and crashes in the middle of switching rows, as long as       *)
(* callbacks never overlapped.                                             *)
AtMostOneCurrent == ~overlapped => Cardinality(isCurrent) <= 1

(* A change is made to the parameters it replaces, the ones its proposal    *)
(* was validated against: as long as callbacks never overlapped, no update *)
(* gets lost, also when the old row was unset and the switch then failed.   *)
ChangesBuildOnCurrent ==
  ~overlapped =>
    \A i \in DOMAIN inForce :
      rows[inForce[i]].proposal # Seed => i > 1 /\ rows[inForce[i]].base = inForce[i - 1]

(* The tables tell the truth, also when calls fail, overlap or are cut off: *)
(* what param_rollout says was applied was in force, and comes from that    *)
(* proposal and that base; and so did a proposal that is marked as applied. *)
AuditTruthful ==
  /\ \A d \in rollout : d.action = "apply" =>
       d.to \in AppliedRows(d.proposal) /\ rows[d.to].base = d.from
  /\ \A p \in Proposals : status[p] = "applied" => AppliedRows(p) # {}

(* 10.4: a pending proposal is decided in the end, although the oldest is   *)
(* not always the first, and once: its factors (up to 3x, 10x) are not      *)
(* applied again to their own result.  The decision is taken when its row   *)
(* becomes current, or its status tells that it was rejected.              *)
Decisions == INSTANCE ProposalDecisions WITH
  verdict <- [p \in Proposals |-> IF AppliedRows(p) # {} THEN "applied" ELSE status[p]],
  chain <- [i \in DOMAIN inForce |-> rows[inForce[i]].proposal]

DecidedOnce == Decisions!DecisionsSpec

(* The executor ends up quoting with a current row, although an answer to   *)
(* the refresh loop may be older than the parameters it replaces.          *)
MemoryCatchesUp == <>[](loaded \in isCurrent)
=============================================================================
