------------------------ MODULE ParamsRolloutProofs -------------------------
(***************************************************************************)
(* Proofs about the parameter rollout, for any number of proposals, rows    *)
(* and apply-loop callbacks in flight, over failing operations and crashes. *)
(***************************************************************************)
EXTENDS ParamsRollout, FiniteSetTheorems, TLAPS

Statuses == {"unsaved", "pending", "applied", "rejected"}
SharedPcs == {"idle", "select", "seed", "seedCommit", "install"}
JobPcs == SharedPcs \cup Operations
Locals == [pc : JobPcs, base : Nat, proposal : Nat, row : Nat, unset : SUBSET Nat]
Row == [proposal : Proposals \cup {Seed}, base : Nat]

(* Only the apply loop has the states of a decision; only it and a seeding *)
(* transaction change what is in force.                                    *)
TypeOK ==
  /\ rows \in Seq(Row)
  /\ isCurrent \in SUBSET Nat
  /\ status \in [Proposals -> Statuses]
  /\ proc \in [Procs -> Locals]
  /\ \A q \in Procs \ Jobs : proc[q].pc \in SharedPcs
  /\ inForce \in Seq(Nat)
  /\ overlapped \in BOOLEAN

(* A row that is current was put in force, and a row in force exists.       *)
RowsExist ==
  /\ \A i \in DOMAIN inForce : inForce[i] \in DOMAIN rows
  /\ isCurrent \subseteq InForce

Creating == {"create", "reject", "auditReject"}
Switching == {"unset", "set"}
Switched == {"markApplied", "auditApply", "install"}

(* What a job that has decided holds in its locals is true of the tables:   *)
(* its row comes from its proposal and its base, and is in force once the   *)
(* switch is done.                                                         *)
LocalTruth(local) ==
  /\ local.pc \in Creating \cup Switching \cup Switched => local.proposal \in Proposals
  /\ local.pc \in Switching \cup Switched =>
       /\ local.row \in DOMAIN rows
       /\ rows[local.row].proposal = local.proposal
       /\ rows[local.row].base = local.base
  /\ local.pc \in Switched => local.row \in InForce

LocalsTruthful == \A j \in Jobs : LocalTruth(proc[j])

(* The inductive invariant behind AuditTruthful.                           *)
IInv == TypeOK /\ RowsExist /\ LocalsTruthful /\ AuditTruthful
-----------------------------------------------------------------------------
LEMMA ProcFacts ==
  /\ Jobs \subseteq Procs /\ "main" \in Procs /\ "refresh" \in Procs
  /\ "main" \notin Jobs /\ "refresh" \notin Jobs
BY RolloutAssumption DEF Procs

(* A step changes the locals of one callback; the others keep theirs.       *)
LEMMA StepTypes ==
  ASSUME TypeOK, NEW q \in Procs, NEW changed \in Locals, Step(q, changed),
         q \notin Jobs => changed.pc \in SharedPcs
  PROVE  /\ proc' \in [Procs -> Locals]
         /\ \A other \in Procs \ Jobs : proc'[other].pc \in SharedPcs
         /\ proc'[q] = changed
         /\ \A other \in Procs \ {q} : proc'[other] = proc[other]
BY DEF TypeOK, Step

LEMMA IdleFacts ==
  /\ Idle \in Locals /\ [Idle EXCEPT !.pc = "select"] \in Locals
  /\ \A q \in Procs : Idle.pc \in SharedPcs /\ [Idle EXCEPT !.pc = "select"].pc \in SharedPcs
  /\ LocalTruth(Idle) /\ LocalTruth([Idle EXCEPT !.pc = "select"])
BY DEF Idle, Locals, JobPcs, SharedPcs, LocalTruth, Creating, Switching, Switched

LEMMA InitIInv == Init => IInv
<1> SUFFICES ASSUME Init PROVE IInv
  OBVIOUS
<1>1. /\ proc \in [Procs -> Locals]
      /\ \A q \in Procs \ Jobs : proc[q].pc \in SharedPcs
      /\ \A j \in Jobs : proc[j] = Idle
  BY IdleFacts, ProcFacts DEF Init
<1>2. rows \in Seq(Row) /\ inForce \in Seq(Nat)
  BY DEF Init
<1>8. isCurrent \in SUBSET Nat /\ overlapped \in BOOLEAN
  BY DEF Init
<1>6. status \in [Proposals -> Statuses]
  BY DEF Init, Statuses
<1>3. RowsExist
  BY DEF Init, RowsExist
<1>4. LocalsTruthful
  BY <1>1, IdleFacts DEF LocalsTruthful
<1>5. AuditTruthful
  BY DEF Init, AuditTruthful
<1>7. QED
  BY <1>1, <1>2, <1>3, <1>4, <1>5, <1>6, <1>8 DEF IInv, TypeOK

(* A row that is appended changes no other.                                *)
LEMMA NewRowFacts ==
  ASSUME TypeOK, NEW proposal \in Proposals \cup {Seed}, NEW base \in Nat
  PROVE  /\ NextId \in Nat
         /\ NewRow(proposal, base) \in Seq(Row)
         /\ DOMAIN NewRow(proposal, base) = DOMAIN rows \cup {NextId}
         /\ NewRow(proposal, base)[NextId] = [proposal |-> proposal, base |-> base]
         /\ \A r \in DOMAIN rows : NewRow(proposal, base)[r] = rows[r]
         /\ NextId \notin DOMAIN rows
BY DEF TypeOK, NewRow, NextId, Row
-----------------------------------------------------------------------------
(* Rows are never changed and what was in force is not forgotten; so what   *)
(* locals and the audit said stays true.                                   *)
RowsGrow ==
  /\ \A r \in DOMAIN rows : r \in DOMAIN rows' /\ rows'[r] = rows[r]
  /\ \A i \in DOMAIN inForce : i \in DOMAIN inForce' /\ inForce'[i] = inForce[i]

LEMMA TruthStays ==
  ASSUME RowsExist, RowsGrow
  PROVE  /\ \A local \in Locals : LocalTruth(local) => LocalTruth(local)'
         /\ \A p \in Proposals : AppliedRows(p) \subseteq AppliedRows(p)'
         /\ \A r \in InForce : r \in InForce' /\ r \in DOMAIN rows /\ rows'[r] = rows[r]
<1>1. \A r \in InForce : r \in InForce' /\ r \in DOMAIN rows /\ rows'[r] = rows[r]
  BY DEF RowsExist, RowsGrow, InForce
<1>2. QED
  BY <1>1 DEF RowsGrow, LocalTruth, AppliedRows

(* A step of one callback that changes no table.                           *)
LEMMA QuietStep ==
  ASSUME IInv, NEW q \in Procs, NEW changed \in Locals, Step(q, changed),
         UNCHANGED <<tables, inForce>>, overlapped' \in BOOLEAN,
         q \notin Jobs => changed.pc \in SharedPcs,
         q \in Jobs => LocalTruth(changed)
  PROVE  IInv'
<1>1. UNCHANGED <<rows, isCurrent, status, rollout, inForce>>
  BY DEF tables
<1>2. TypeOK'
  BY <1>1, StepTypes DEF IInv, TypeOK
<1>3. RowsExist' /\ RowsGrow /\ AuditTruthful'
  BY <1>1 DEF IInv, RowsExist, RowsGrow, AuditTruthful, AppliedRows, InForce
<1>4. LocalsTruthful'
  <2> SUFFICES ASSUME NEW j \in Jobs PROVE LocalTruth(proc[j])'
    BY DEF LocalsTruthful
  <2>1. proc'[j] \in Locals /\ LocalTruth(proc'[j])
    BY StepTypes, ProcFacts DEF IInv, TypeOK, LocalsTruthful
  <2>2. QED
    BY <1>1, <2>1 DEF LocalTruth, InForce
<1>5. QED
  BY <1>2, <1>3, <1>4 DEF IInv

LEMMA BeginStep ==
  ASSUME IInv, NEW q \in Procs, Begin(q)
  PROVE  IInv'
<1>1. overlapped' \in BOOLEAN
  BY DEF Begin, IInv, TypeOK
<1>2. Step(q, [Idle EXCEPT !.pc = "select"]) /\ UNCHANGED <<tables, inForce>>
  BY DEF Begin
<1>3. QED
  BY <1>1, <1>2, IdleFacts, QuietStep

LEMMA SelectCurrentStep ==
  ASSUME IInv, NEW q \in Procs, SelectCurrent(q)
  PROVE  IInv'
<1>1. UNCHANGED <<tables, inForce>> /\ overlapped' \in BOOLEAN
  BY DEF SelectCurrent, history, IInv, TypeOK
<1>2. proc[q] \in Locals
  BY DEF IInv, TypeOK
<1>3. CASE isCurrent = {}
  <2>1. Step(q, [proc[q] EXCEPT !.pc = "seed"])
    BY <1>3 DEF SelectCurrent, Goto
  <2>2. [proc[q] EXCEPT !.pc = "seed"] \in Locals /\ LocalTruth([proc[q] EXCEPT !.pc = "seed"])
    BY <1>2 DEF Locals, JobPcs, SharedPcs, LocalTruth, Creating, Switching, Switched
  <2>3. [proc[q] EXCEPT !.pc = "seed"].pc \in SharedPcs
    BY <1>2 DEF Locals, SharedPcs
  <2>4. QED
    BY <1>1, <2>1, <2>2, <2>3, QuietStep
<1>4. CASE isCurrent # {}
  <2>1. PICK r \in isCurrent : Step(q, [proc[q] EXCEPT !.pc = AfterSelect(q), !.base = r])
    BY <1>4 DEF SelectCurrent
  <2> DEFINE changed == [proc[q] EXCEPT !.pc = AfterSelect(q), !.base = r]
  <2>2. r \in Nat
    BY DEF IInv, TypeOK
  <2>3. /\ changed \in Locals
        /\ changed.pc = AfterSelect(q)
    BY <1>2, <2>2 DEF Locals, JobPcs, SharedPcs, Operations, AfterSelect
  <2> HIDE DEF changed
  <2>4. (q \in Jobs => LocalTruth(changed)) /\ (q \notin Jobs => changed.pc \in SharedPcs)
    BY <2>3 DEF AfterSelect, LocalTruth, Creating, Switching, Switched, SharedPcs
  <2>5. Step(q, changed)
    BY <2>1 DEF changed
  <2>6. QED
    BY <1>1, <2>3, <2>4, <2>5, QuietStep
<1>5. QED
  BY <1>3, <1>4

LEMMA SeedBeginStep ==
  ASSUME IInv, NEW q \in Procs, SeedBegin(q)
  PROVE  IInv'
<1> DEFINE changed == [proc[q] EXCEPT !.pc = "seedCommit", !.unset = isCurrent]
<1>1. Step(q, changed) /\ UNCHANGED <<tables, inForce>> /\ overlapped' \in BOOLEAN
  BY DEF SeedBegin, history, IInv, TypeOK
<1>2. changed \in Locals /\ changed.pc = "seedCommit"
  BY DEF IInv, TypeOK, Locals, JobPcs, SharedPcs
<1> HIDE DEF changed
<1>3. LocalTruth(changed) /\ changed.pc \in SharedPcs
  BY <1>2 DEF LocalTruth, Creating, Switching, Switched, SharedPcs
<1>4. QED
  BY <1>1, <1>2, <1>3, QuietStep

LEMMA SelectPendingStep ==
  ASSUME IInv, NEW j \in Jobs, SelectPending(j)
  PROVE  IInv'
<1>1. j \in Procs /\ UNCHANGED <<tables, inForce>> /\ overlapped' \in BOOLEAN
  BY ProcFacts DEF SelectPending, history, IInv, TypeOK
<1> DEFINE waiting == {p \in Proposals : status[p] = "pending"}
<1>2. CASE waiting = {}
  BY <1>1, <1>2, IdleFacts, QuietStep DEF SelectPending, Stop
<1>3. CASE waiting # {}
  <2>1. PICK p \in waiting, pc \in {"create", "reject"} :
          Step(j, [proc[j] EXCEPT !.pc = pc, !.proposal = p])
    BY <1>3 DEF SelectPending
  <2> DEFINE changed == [proc[j] EXCEPT !.pc = pc, !.proposal = p]
  <2>2. /\ changed \in Locals
        /\ changed.pc \in {"create", "reject"} /\ changed.proposal \in Proposals
    BY <1>1, RolloutAssumption DEF IInv, TypeOK, Locals, JobPcs, Operations
  <2>3. Step(j, changed)
    BY <2>1
  <2> HIDE DEF changed
  <2>4. LocalTruth(changed)
    BY <2>2 DEF LocalTruth, Creating, Switching, Switched
  <2>5. QED
    BY <1>1, <2>2, <2>3, <2>4, QuietStep
<1>4. QED
  BY <1>2, <1>3

LEMMA InstallStep ==
  ASSUME IInv, NEW q \in Procs, Install(q)
  PROVE  IInv'
<1>1. Step(q, Idle) /\ UNCHANGED <<tables, inForce>> /\ overlapped' \in BOOLEAN
  BY DEF Install, Stop, history, IInv, TypeOK
<1>2. QED
  BY <1>1, IdleFacts, QuietStep

(* The results of updateProposalStatus and saveParamRollout are ignored:    *)
(* what the locals say is as true after the failure as before.             *)
LEMMA FailStep ==
  ASSUME IInv, NEW q \in Procs, Fail(q)
  PROVE  IInv'
<1>1. UNCHANGED <<tables, inForce>> /\ overlapped' \in BOOLEAN /\ proc[q] \in Locals
  BY DEF Fail, history, IInv, TypeOK
<1>2. CASE Step(q, Idle)
  BY <1>1, <1>2, IdleFacts, QuietStep
<1>3. ASSUME NEW pc \in {"auditReject", "auditApply", "install"}, Step(q, [proc[q] EXCEPT !.pc = pc]),
             proc[q].pc = IF pc = "auditReject" THEN "reject"
                          ELSE IF pc = "auditApply" THEN "markApplied" ELSE "auditApply"
      PROVE  IInv'
  <2> DEFINE changed == [proc[q] EXCEPT !.pc = pc]
  <2>1. /\ changed \in Locals /\ changed.pc = pc
        /\ changed.proposal = proc[q].proposal /\ changed.row = proc[q].row /\ changed.base = proc[q].base
    BY <1>1 DEF Locals, JobPcs, SharedPcs, Operations
  <2>2. Step(q, changed)
    BY <1>3
  <2> HIDE DEF changed
  <2>3. q \in Jobs
    BY <1>3 DEF IInv, TypeOK, SharedPcs
  <2>4. LocalTruth(proc[q])
    BY <2>3 DEF IInv, LocalsTruthful
  <2>5. LocalTruth(changed)
    BY <1>3, <2>1, <2>4 DEF LocalTruth, Creating, Switching, Switched
  <2>6. QED
    BY <1>1, <2>1, <2>2, <2>3, <2>5, QuietStep
<1>4. QED
  BY <1>2, <1>3 DEF Fail, Goto, Stop, Awaits
-----------------------------------------------------------------------------
(* A step of one callback that changes tables keeps the truth of all locals *)
(* if rows only grow and its own new locals are true.                      *)
LEMMA LocalsStep ==
  ASSUME IInv, RowsGrow, NEW q \in Procs, NEW changed \in Locals, Step(q, changed),
         q \in Jobs => LocalTruth(changed)'
  PROVE  LocalsTruthful'
<1> SUFFICES ASSUME NEW j \in Jobs PROVE LocalTruth(proc[j])'
  BY DEF LocalsTruthful
<1>1. CASE j = q
  <2>1. proc'[j] = changed
    BY <1>1 DEF IInv, TypeOK, Step
  <2>2. QED
    BY <1>1, <2>1 DEF LocalTruth
<1>2. CASE j # q
  <2>1. proc'[j] = proc[j] /\ proc[j] \in Locals
    BY <1>2, ProcFacts DEF IInv, TypeOK, Step
  <2>2. LocalTruth(proc[j])
    BY DEF IInv, LocalsTruthful
  <2>3. \A local \in Locals : LocalTruth(local) => LocalTruth(local)'
    BY TruthStays DEF IInv
  <2>4. PICK local \in Locals : local = proc[j]
    BY <2>1
  <2>5. QED
    BY <2>1, <2>2, <2>3, <2>4 DEF LocalTruth
<1>3. QED
  BY <1>1, <1>2

(* The audit stays true when it is not written.                            *)
LEMMA AuditStays ==
  ASSUME IInv, RowsGrow, UNCHANGED rollout,
         \A p \in Proposals : status'[p] = "applied" => status[p] = "applied" \/ AppliedRows(p) # {}
  PROVE  AuditTruthful'
<1>1. /\ \A p \in Proposals : AppliedRows(p) \subseteq AppliedRows(p)'
      /\ \A r \in InForce : r \in InForce' /\ r \in DOMAIN rows /\ rows'[r] = rows[r]
  BY TruthStays DEF IInv
<1>2. ASSUME NEW d \in rollout, d.action = "apply"
      PROVE  d.to \in AppliedRows(d.proposal)' /\ rows'[d.to].base = d.from
  BY <1>1, <1>2 DEF IInv, AuditTruthful, AppliedRows
<1>3. ASSUME NEW p \in Proposals, status'[p] = "applied"
      PROVE  AppliedRows(p)' # {}
  BY <1>1, <1>3 DEF IInv, AuditTruthful
<1>4. QED
  BY <1>2, <1>3 DEF AuditTruthful

LEMMA SaveProposalStep ==
  ASSUME IInv, NEW p \in Proposals, SaveProposal(p)
  PROVE  IInv'
<1>1. UNCHANGED <<rows, isCurrent, rollout, proc, inForce, overlapped>>
  BY DEF SaveProposal, history
<1>2. status' \in [Proposals -> Statuses] /\ \A q \in Proposals : status'[q] = "applied" => status[q] = "applied"
  BY DEF SaveProposal, IInv, TypeOK, Statuses
<1>3. TypeOK' /\ RowsExist' /\ RowsGrow
  BY <1>1, <1>2 DEF IInv, TypeOK, RowsExist, RowsGrow, InForce
<1>4. LocalsTruthful'
  BY <1>1 DEF IInv, LocalsTruthful, LocalTruth, InForce
<1>5. AuditTruthful'
  BY <1>1, <1>2, <1>3, AuditStays
<1>6. QED
  BY <1>3, <1>4, <1>5 DEF IInv

(* The status of an applied proposal is written when its row is in force.   *)
LEMMA MarkStatusStep ==
  ASSUME IInv, NEW j \in Jobs, MarkStatus(j)
  PROVE  IInv'
<1> DEFINE pc == IF proc[j].pc = "markApplied" THEN "auditApply" ELSE "auditReject"
           after == [proc[j] EXCEPT !.pc = pc]
<1>1. /\ j \in Procs /\ proc[j] \in Locals /\ LocalTruth(proc[j])
      /\ proc[j].pc \in {"markApplied", "reject"}
      /\ UNCHANGED <<rows, isCurrent, rollout, inForce, overlapped>>
      /\ Step(j, after)
  BY ProcFacts DEF MarkStatus, Awaits, Goto, history, IInv, TypeOK, LocalsTruthful
<1>2. PICK changed \in Locals :
        /\ Step(j, changed) /\ changed.pc = pc
        /\ changed.proposal = proc[j].proposal /\ changed.row = proc[j].row /\ changed.base = proc[j].base
  BY <1>1 DEF Locals, JobPcs, Operations
<1>3. LocalTruth(changed)
  BY <1>1, <1>2 DEF LocalTruth, Creating, Switching, Switched
<1>4. RowsGrow /\ LocalTruth(changed)'
  BY <1>1, <1>3 DEF RowsGrow, LocalTruth, InForce
<1>5. /\ status' \in [Proposals -> Statuses]
      /\ \A p \in Proposals : status'[p] = "applied" => status[p] = "applied" \/ AppliedRows(p) # {}
  <2>1. proc[j].proposal \in Proposals
    BY <1>1 DEF LocalTruth, Creating, Switched
  <2>2. status' = [status EXCEPT ![proc[j].proposal] =
                     IF proc[j].pc = "markApplied" THEN "applied" ELSE "rejected"]
    BY DEF MarkStatus, Awaits
  <2>3. proc[j].pc = "markApplied" => proc[j].row \in AppliedRows(proc[j].proposal)
    BY <1>1 DEF LocalTruth, Switched, AppliedRows
  <2>4. QED
    BY <2>1, <2>2, <2>3 DEF IInv, TypeOK, Statuses
<1>6. TypeOK'
  BY <1>1, <1>2, <1>5, StepTypes DEF IInv, TypeOK
<1>7. RowsExist'
  BY <1>1 DEF IInv, RowsExist, InForce
<1>8. QED
  BY <1>1, <1>2, <1>4, <1>5, <1>6, <1>7, LocalsStep, AuditStays DEF IInv

(* What the audit row of an applied proposal says is what the locals say.   *)
LEMMA AuditStep ==
  ASSUME IInv, NEW j \in Jobs, Audit(j)
  PROVE  IInv'
<1> DEFINE after == IF proc[j].pc = "auditApply" THEN [proc[j] EXCEPT !.pc = "install"] ELSE Idle
           entry == [proposal |-> proc[j].proposal,
                     action |-> IF proc[j].pc = "auditApply" THEN "apply" ELSE "reject",
                     from |-> proc[j].base, to |-> proc[j].row]
<1>1. /\ j \in Procs /\ proc[j] \in Locals /\ LocalTruth(proc[j])
      /\ UNCHANGED <<rows, isCurrent, status, inForce, overlapped>>
      /\ Step(j, after)
      /\ rollout' = rollout \cup {entry}
  BY ProcFacts DEF Audit, Awaits, Goto, Stop, history, IInv, TypeOK, LocalsTruthful
<1>2. PICK changed \in Locals : Step(j, changed) /\ LocalTruth(changed)
  <2>1. CASE proc[j].pc = "auditApply"
    BY <1>1, <2>1 DEF Locals, JobPcs, SharedPcs, LocalTruth, Creating, Switching, Switched
  <2>2. CASE proc[j].pc # "auditApply"
    BY <1>1, <2>2, IdleFacts
  <2>3. QED
    BY <2>1, <2>2
<1>3. RowsGrow /\ LocalTruth(changed)'
  BY <1>1, <1>2 DEF RowsGrow, LocalTruth, InForce
<1>4. TypeOK'
  BY <1>1, <1>2, StepTypes DEF IInv, TypeOK
<1>5. RowsExist'
  BY <1>1 DEF IInv, RowsExist, InForce
<1>6. AuditTruthful'
  <2>1. \A p \in Proposals : AppliedRows(p)' = AppliedRows(p)
    BY <1>1 DEF AppliedRows, InForce
  <2>2. ASSUME entry.action = "apply"
        PROVE  entry.to \in AppliedRows(entry.proposal) /\ rows[entry.to].base = entry.from
    BY <1>1, <2>2 DEF LocalTruth, Switched, AppliedRows
  <2> HIDE DEF entry
  <2>3. ASSUME NEW d \in rollout', d.action = "apply"
        PROVE  d.to \in AppliedRows(d.proposal) /\ rows[d.to].base = d.from
    BY <1>1, <2>2, <2>3 DEF IInv, AuditTruthful
  <2>4. QED
    BY <1>1, <2>1, <2>3 DEF IInv, AuditTruthful, AppliedRows, InForce
<1>7. QED
  BY <1>1, <1>2, <1>3, <1>4, <1>5, <1>6, LocalsStep DEF IInv

LEMMA CreateRowStep ==
  ASSUME IInv, NEW j \in Jobs, CreateRow(j)
  PROVE  IInv'
<1>1. /\ j \in Procs /\ proc[j] \in Locals /\ proc[j].proposal \in Proposals /\ proc[j].base \in Nat
      /\ UNCHANGED <<isCurrent, status, rollout, inForce, overlapped>>
      /\ Step(j, [proc[j] EXCEPT !.pc = "unset", !.row = NextId])
      /\ rows' = NewRow(proc[j].proposal, proc[j].base)
  BY ProcFacts DEF CreateRow, Awaits, history, IInv, TypeOK, LocalsTruthful, LocalTruth, Creating, Locals
<1>2. /\ NextId \in Nat /\ rows' \in Seq(Row)
      /\ DOMAIN rows' = DOMAIN rows \cup {NextId}
      /\ rows'[NextId] = [proposal |-> proc[j].proposal, base |-> proc[j].base]
      /\ \A r \in DOMAIN rows : rows'[r] = rows[r]
  <2>1. PICK proposal \in Proposals, base \in Nat : proposal = proc[j].proposal /\ base = proc[j].base
    BY <1>1
  <2>2. rows' = NewRow(proposal, base)
    BY <1>1, <2>1
  <2>3. proposal \in Proposals \cup {Seed}
    OBVIOUS
  <2>4. QED
    BY <2>1, <2>2, <2>3, NewRowFacts DEF IInv
<1>3. PICK changed \in Locals :
        /\ Step(j, changed) /\ changed.pc = "unset" /\ changed.row = NextId
        /\ changed.proposal = proc[j].proposal /\ changed.base = proc[j].base
  <2> DEFINE after == [proc[j] EXCEPT !.pc = "unset", !.row = NextId]
  <2>1. /\ after \in Locals /\ after.pc = "unset" /\ after.row = NextId
        /\ after.proposal = proc[j].proposal /\ after.base = proc[j].base
    BY <1>1, <1>2 DEF Locals, JobPcs, Operations
  <2>2. QED
    BY <1>1, <2>1
<1>4. LocalTruth(changed)'
  BY <1>1, <1>2, <1>3 DEF LocalTruth, Creating, Switching, Switched
<1>5. RowsGrow
  BY <1>1, <1>2 DEF RowsGrow
<1>6. TypeOK'
  BY <1>1, <1>2, <1>3, StepTypes DEF IInv, TypeOK
<1>7. RowsExist'
  BY <1>1, <1>2 DEF IInv, RowsExist, InForce
<1>8. AuditTruthful'
  BY <1>1, <1>5, AuditStays
<1>9. QED
  BY <1>1, <1>3, <1>4, <1>5, <1>6, <1>7, <1>8, LocalsStep DEF IInv

LEMMA UnsetCurrentStep ==
  ASSUME IInv, NEW j \in Jobs, UnsetCurrent(j)
  PROVE  IInv'
<1>1. /\ j \in Procs /\ proc[j] \in Locals /\ LocalTruth(proc[j]) /\ proc[j].pc = "unset"
      /\ UNCHANGED <<rows, status, rollout, inForce, overlapped>> /\ isCurrent' = {}
      /\ Step(j, [proc[j] EXCEPT !.pc = "set"])
  BY ProcFacts DEF UnsetCurrent, Awaits, Goto, history, IInv, TypeOK, LocalsTruthful
<1>2. PICK changed \in Locals :
        /\ Step(j, changed) /\ changed.pc = "set" /\ changed.row = proc[j].row
        /\ changed.proposal = proc[j].proposal /\ changed.base = proc[j].base
  BY <1>1 DEF Locals, JobPcs, Operations
<1>3. LocalTruth(changed)'
  BY <1>1, <1>2 DEF LocalTruth, Creating, Switching, Switched
<1>4. RowsGrow /\ RowsExist'
  BY <1>1 DEF RowsGrow, IInv, RowsExist
<1>5. TypeOK'
  BY <1>1, <1>2, StepTypes DEF IInv, TypeOK
<1>6. AuditTruthful'
  BY <1>1, <1>4, AuditStays
<1>7. QED
  BY <1>1, <1>2, <1>3, <1>4, <1>5, <1>6, LocalsStep DEF IInv

(* What a row that comes into force does to the order of those in force.    *)
LEMMA InForceFacts ==
  ASSUME TypeOK, NEW r \in Nat, inForce' = Append(inForce, r)
  PROVE  /\ inForce' \in Seq(Nat)
         /\ Len(inForce') = Len(inForce) + 1 /\ inForce'[Len(inForce')] = r
         /\ DOMAIN inForce' = DOMAIN inForce \cup {Len(inForce')}
         /\ Len(inForce') \notin DOMAIN inForce
         /\ \A i \in DOMAIN inForce : inForce'[i] = inForce[i]
         /\ InForce' = InForce \cup {r}
<1>1. /\ inForce' \in Seq(Nat)
      /\ Len(inForce') = Len(inForce) + 1 /\ inForce'[Len(inForce')] = r
      /\ DOMAIN inForce' = DOMAIN inForce \cup {Len(inForce')}
      /\ Len(inForce') \notin DOMAIN inForce
      /\ \A i \in DOMAIN inForce : inForce'[i] = inForce[i]
  BY DEF TypeOK
<1>2. InForce' = InForce \cup {r}
  BY <1>1 DEF InForce
<1>3. QED
  BY <1>1, <1>2

LEMMA SetCurrentStep ==
  ASSUME IInv, NEW j \in Jobs, SetCurrent(j)
  PROVE  IInv'
<1>1. /\ j \in Procs /\ proc[j] \in Locals /\ LocalTruth(proc[j]) /\ proc[j].pc = "set"
      /\ UNCHANGED <<rows, status, rollout, overlapped>>
      /\ isCurrent' = isCurrent \cup {proc[j].row} /\ inForce' = Append(inForce, proc[j].row)
      /\ Step(j, [proc[j] EXCEPT !.pc = "markApplied"])
  BY ProcFacts DEF SetCurrent, Awaits, Goto, IInv, TypeOK, LocalsTruthful
<1>2. PICK changed \in Locals :
        /\ Step(j, changed) /\ changed.pc = "markApplied" /\ changed.row = proc[j].row
        /\ changed.proposal = proc[j].proposal /\ changed.base = proc[j].base
  BY <1>1 DEF Locals, JobPcs, Operations
<1>3. changed.row \in Nat /\ changed.row \in DOMAIN rows
  BY <1>1, <1>2 DEF LocalTruth, Switching, Locals
<1>4. /\ inForce' \in Seq(Nat) /\ InForce' = InForce \cup {changed.row}
      /\ DOMAIN inForce' = DOMAIN inForce \cup {Len(inForce')}
      /\ inForce'[Len(inForce')] = changed.row
      /\ \A i \in DOMAIN inForce : inForce'[i] = inForce[i]
  BY <1>1, <1>2, <1>3, InForceFacts DEF IInv
<1>5. LocalTruth(changed)'
  BY <1>1, <1>2, <1>4 DEF LocalTruth, Creating, Switching, Switched
<1>6. RowsGrow
  BY <1>1, <1>4 DEF RowsGrow
<1>7. RowsExist'
  BY <1>1, <1>2, <1>3, <1>4 DEF IInv, RowsExist
<1>8. TypeOK'
  BY <1>1, <1>2, <1>3, <1>4, StepTypes DEF IInv, TypeOK
<1>9. AuditTruthful'
  BY <1>1, <1>6, AuditStays
<1>10. QED
  BY <1>1, <1>2, <1>5, <1>6, <1>7, <1>8, <1>9, LocalsStep DEF IInv

LEMMA SeedCommitStep ==
  ASSUME IInv, NEW q \in Procs, SeedCommit(q)
  PROVE  IInv'
<1>1. /\ proc[q] \in Locals
      /\ UNCHANGED <<status, rollout, overlapped>>
      /\ rows' = NewRow(Seed, 0)
      /\ isCurrent' = (isCurrent \ proc[q].unset) \cup {NextId}
      /\ inForce' = Append(inForce, NextId)
      /\ Step(q, [proc[q] EXCEPT !.pc = AfterSelect(q), !.base = NextId, !.unset = {}])
  BY DEF SeedCommit, IInv, TypeOK
<1>2. /\ NextId \in Nat /\ rows' \in Seq(Row)
      /\ DOMAIN rows' = DOMAIN rows \cup {NextId}
      /\ \A r \in DOMAIN rows : rows'[r] = rows[r]
  <2>1. Seed \in Proposals \cup {Seed} /\ 0 \in Nat
    OBVIOUS
  <2>2. QED
    BY <1>1, <2>1, NewRowFacts DEF IInv
<1>3. /\ inForce' \in Seq(Nat) /\ InForce' = InForce \cup {NextId}
      /\ DOMAIN inForce' = DOMAIN inForce \cup {Len(inForce')}
      /\ inForce'[Len(inForce')] = NextId
      /\ \A i \in DOMAIN inForce : inForce'[i] = inForce[i]
  <2>1. PICK r \in Nat : r = NextId
    BY <1>2
  <2>2. inForce' = Append(inForce, r)
    BY <1>1, <2>1
  <2>3. QED
    BY <2>1, <2>2, InForceFacts DEF IInv
<1>4. PICK changed \in Locals : Step(q, changed) /\ changed.pc = AfterSelect(q)
  <2> DEFINE after == [proc[q] EXCEPT !.pc = AfterSelect(q), !.base = NextId, !.unset = {}]
  <2>1. AfterSelect(q) \in JobPcs
    BY DEF AfterSelect, JobPcs, SharedPcs, Operations
  <2>2. after \in Locals /\ after.pc = AfterSelect(q)
    BY <1>1, <1>2, <2>1 DEF Locals
  <2>3. QED
    BY <1>1, <2>2
<1>5. (q \in Jobs => LocalTruth(changed)') /\ (q \notin Jobs => changed.pc \in SharedPcs)
  BY <1>4 DEF AfterSelect, LocalTruth, Creating, Switching, Switched, SharedPcs
<1>6. RowsGrow
  BY <1>2, <1>3 DEF RowsGrow
<1>7. RowsExist'
  BY <1>1, <1>2, <1>3 DEF IInv, RowsExist
<1>8. TypeOK'
  BY <1>1, <1>2, <1>3, <1>4, <1>5, StepTypes DEF IInv, TypeOK
<1>9. AuditTruthful'
  BY <1>1, <1>6, AuditStays
<1>10. QED
  BY <1>4, <1>5, <1>6, <1>7, <1>8, <1>9, LocalsStep DEF IInv

LEMMA CrashStep ==
  ASSUME IInv, Crash
  PROVE  IInv'
<1>1. UNCHANGED <<rows, isCurrent, status, rollout, inForce, overlapped>>
  BY DEF Crash, tables, history
<1>2. /\ proc' \in [Procs -> Locals]
      /\ \A q \in Procs \ Jobs : proc'[q].pc \in SharedPcs
      /\ \A j \in Jobs : proc'[j] = Idle
  BY IdleFacts, ProcFacts DEF Crash
<1>3. LocalsTruthful'
  BY <1>2 DEF LocalsTruthful, LocalTruth, Idle, Creating, Switching, Switched
<1>4. TypeOK'
  BY <1>1, <1>2 DEF IInv, TypeOK
<1>5. RowsExist' /\ AuditTruthful'
  BY <1>1 DEF IInv, RowsExist, AuditTruthful, AppliedRows, InForce
<1>6. QED
  BY <1>3, <1>4, <1>5 DEF IInv
-----------------------------------------------------------------------------
LEMMA InvariantStep == IInv /\ [Next]_vars => IInv'
<1> SUFFICES ASSUME IInv, [Next]_vars PROVE IInv'
  OBVIOUS
<1>1. ASSUME NEW p \in Proposals, SaveProposal(p) PROVE IInv'
  BY <1>1, SaveProposalStep
<1>2. ASSUME WindowOpens \/ WindowCloses \/ UNCHANGED vars PROVE IInv'
  <2>1. UNCHANGED <<rows, isCurrent, status, rollout, proc, inForce, overlapped>>
    BY <1>2 DEF WindowOpens, WindowCloses, tables, history, vars
  <2>2. QED
    BY <2>1 DEF IInv, TypeOK, RowsExist, LocalsTruthful, LocalTruth, AuditTruthful, AppliedRows, InForce
<1>3. CASE StartRefresh
  BY <1>3, BeginStep, ProcFacts DEF StartRefresh
<1>4. CASE Crash
  BY <1>4, CrashStep
<1>5. ASSUME NEW q \in Procs, GetCurrent(q) \/ Install(q) \/ Fail(q) PROVE IInv'
  BY <1>5, SelectCurrentStep, SeedBeginStep, SeedCommitStep, InstallStep, FailStep DEF GetCurrent
<1>6. ASSUME NEW j \in Jobs, StartApply(j) \/ Apply(j) PROVE IInv'
  BY <1>6, ProcFacts, BeginStep, SelectPendingStep, MarkStatusStep, AuditStep, CreateRowStep,
     UnsetCurrentStep, SetCurrentStep DEF StartApply, Apply
<1>7. QED
  BY <1>1, <1>2, <1>3, <1>4, <1>5, <1>6 DEF Next

LEMMA InvariantHolds == Spec => []IInv
BY InitIInv, InvariantStep, PTL DEF Spec

(* What param_rollout and llm_proposal say was applied was in force, and     *)
(* comes from that proposal and that base, whatever fails, overlaps or is   *)
(* cut off.                                                                *)
THEOREM AuditIsTruthful == Spec => []AuditTruthful
<1>1. IInv => AuditTruthful
  BY DEF IInv
<1>2. QED
  BY <1>1, InvariantHolds, PTL
-----------------------------------------------------------------------------
(* As long as callbacks never overlapped, at most one of them is in flight. *)
(* Then the row that is current, if there is one, is the one that came into *)
(* force last; it stays so while a change to it is prepared; and a seeding   *)
(* transaction unsets all there is.                                        *)
Last == inForce[Len(inForce)]
Building == {"pending", "create", "reject"} \cup Switching

InTurn(local) ==
  /\ local.pc = "seedCommit" => local.unset = isCurrent
  /\ local.pc = "set" => isCurrent = {}

BuildsOnLast(local) == local.pc \in Building => inForce # << >> /\ local.base = Last

Alone ==
  /\ \A q, other \in Procs : q # other => proc[q].pc = "idle" \/ proc[other].pc = "idle"
  /\ \A r \in isCurrent : inForce # << >> /\ r = Last
  /\ \A q \in Procs : InTurn(proc[q])
  /\ \A j \in Jobs : BuildsOnLast(proc[j])
  /\ ChangesBuildOnCurrent

AloneInv == ~overlapped => Alone

LEMMA InitAlone == Init => AloneInv
<1> SUFFICES ASSUME Init PROVE Alone
  BY DEF AloneInv
<1>1. /\ \A q \in Procs \ {"main"} : proc[q] = Idle
      /\ proc["main"] = [Idle EXCEPT !.pc = "select"]
      /\ isCurrent = {} /\ inForce = << >>
  BY ProcFacts DEF Init
<1>2. \A q \in Procs : proc[q].pc \in {"idle", "select"} /\ (q # "main" => proc[q].pc = "idle")
  BY <1>1 DEF Idle
<1>3. ChangesBuildOnCurrent
  BY <1>1 DEF ChangesBuildOnCurrent
<1>4. QED
  BY <1>1, <1>2, <1>3, ProcFacts DEF Alone, InTurn, BuildsOnLast, Building, Switching

(* A callback that is not idle is the only one, and the others stay idle.   *)
(* So a step keeps the invariant if it does for the callback that takes it. *)
LEMMA AloneStep ==
  ASSUME IInv, Alone, NEW q \in Procs, proc[q].pc # "idle", NEW changed \in Locals, Step(q, changed),
         \A r \in isCurrent' : inForce' # << >> /\ r = Last',
         InTurn(changed)', q \in Jobs => BuildsOnLast(changed)',
         ChangesBuildOnCurrent'
  PROVE  AloneInv'
<1>1. proc'[q] = changed /\ \A other \in Procs \ {q} : proc'[other].pc = "idle"
  BY DEF Alone, Step, IInv, TypeOK
<1>2. \A other \in Procs \ {q} : InTurn(proc[other])' /\ BuildsOnLast(proc[other])'
  BY <1>1 DEF InTurn, BuildsOnLast, Building, Switching
<1>3. \A other \in Procs : InTurn(proc[other])'
  BY <1>1, <1>2 DEF InTurn
<1>4. \A j \in Jobs : BuildsOnLast(proc[j])'
  BY <1>1, <1>2, ProcFacts DEF BuildsOnLast, Last
<1>5. QED
  BY <1>1, <1>3, <1>4 DEF AloneInv, Alone

(* A step that changes no table asks only about the new locals.             *)
LEMMA AloneQuietStep ==
  ASSUME IInv, Alone, NEW q \in Procs, proc[q].pc # "idle", NEW changed \in Locals, Step(q, changed),
         UNCHANGED <<rows, isCurrent, inForce, overlapped>>, InTurn(changed), q \in Jobs => BuildsOnLast(changed)
  PROVE  AloneInv'
<1>2. InTurn(changed)' /\ (q \in Jobs => BuildsOnLast(changed)') /\ ChangesBuildOnCurrent'
  BY DEF InTurn, BuildsOnLast, Last, Alone, ChangesBuildOnCurrent
<1>3. \A r \in isCurrent' : inForce' # << >> /\ r = Last'
  BY DEF Alone, Last
<1>4. QED
  BY <1>2, <1>3, AloneStep

LEMMA IdleIsAlone == InTurn(Idle) /\ BuildsOnLast(Idle)
BY DEF Idle, InTurn, BuildsOnLast, Building, Switching

LEMMA BeginAlone ==
  ASSUME IInv, AloneInv, NEW q \in Procs, Awaits(q, "idle"), Begin(q)
  PROVE  AloneInv'
<1> SUFFICES ASSUME ~overlapped' PROVE Alone'
  BY DEF AloneInv
<1>1. /\ UNCHANGED <<rows, isCurrent, inForce>> /\ ~overlapped /\ Alone
      /\ \A other \in Procs \ {q} : proc[other].pc = "idle"
      /\ Step(q, [Idle EXCEPT !.pc = "select"])
  BY DEF Begin, Awaits, tables, AloneInv
<1>2. /\ proc'[q].pc = "select"
      /\ \A other \in Procs \ {q} : proc'[other].pc = "idle"
  BY <1>1 DEF Step, IInv, TypeOK, Idle
<1>3. ChangesBuildOnCurrent' /\ \A r \in isCurrent' : inForce' # << >> /\ r = Last'
  BY <1>1 DEF Alone, ChangesBuildOnCurrent, Last
<1>4. \A other \in Procs : InTurn(proc[other])' /\ BuildsOnLast(proc[other])'
  BY <1>2 DEF InTurn, BuildsOnLast, Building, Switching
<1>5. QED
  BY <1>2, <1>3, <1>4, ProcFacts DEF Alone

LEMMA CrashAlone ==
  ASSUME IInv, AloneInv, Crash
  PROVE  AloneInv'
<1> SUFFICES ASSUME ~overlapped' PROVE Alone'
  BY DEF AloneInv
<1>1. UNCHANGED <<rows, isCurrent, inForce>> /\ ~overlapped /\ Alone
  BY DEF Crash, tables, history, AloneInv
<1>2. \A q \in Procs : proc'[q].pc \in {"idle", "select"} /\ (q # "main" => proc'[q].pc = "idle")
  BY DEF Crash, Idle
<1>3. ChangesBuildOnCurrent' /\ \A r \in isCurrent' : inForce' # << >> /\ r = Last'
  BY <1>1 DEF Alone, ChangesBuildOnCurrent, Last
<1>4. \A q \in Procs : InTurn(proc[q])' /\ BuildsOnLast(proc[q])'
  BY <1>2 DEF InTurn, BuildsOnLast, Building, Switching
<1>5. QED
  BY <1>2, <1>3, <1>4, ProcFacts DEF Alone

(* The locals of a callback after it went on to pc, keeping the rest.       *)
LEMMA GoneOn ==
  ASSUME IInv, NEW q \in Procs, NEW pc \in JobPcs, Goto(q, pc)
  PROVE  \E changed \in Locals :
           /\ Step(q, changed) /\ changed.pc = pc
           /\ changed.base = proc[q].base /\ changed.row = proc[q].row /\ changed.unset = proc[q].unset
<1> DEFINE after == [proc[q] EXCEPT !.pc = pc]
<1>1. /\ after \in Locals /\ after.pc = pc
      /\ after.base = proc[q].base /\ after.row = proc[q].row /\ after.unset = proc[q].unset
  BY DEF IInv, TypeOK, Locals
<1>2. QED
  BY <1>1 DEF Goto

LEMMA SelectCurrentAlone ==
  ASSUME IInv, Alone, NEW q \in Procs, SelectCurrent(q)
  PROVE  AloneInv'
<1>1. proc[q].pc = "select" /\ proc[q] \in Locals /\ UNCHANGED <<rows, isCurrent, inForce, overlapped>>
  BY DEF SelectCurrent, Awaits, tables, history, IInv, TypeOK
<1>2. CASE isCurrent = {}
  <2>1. Goto(q, "seed") /\ "seed" \in JobPcs
    BY <1>2 DEF SelectCurrent, JobPcs, SharedPcs
  <2>2. PICK changed \in Locals : Step(q, changed) /\ changed.pc = "seed"
    BY <2>1, GoneOn
  <2>3. InTurn(changed) /\ BuildsOnLast(changed)
    BY <2>2 DEF InTurn, BuildsOnLast, Building, Switching
  <2>4. QED
    BY <1>1, <2>2, <2>3, AloneQuietStep
<1>3. CASE isCurrent # {}
  <2>1. PICK r \in isCurrent : Step(q, [proc[q] EXCEPT !.pc = AfterSelect(q), !.base = r])
    BY <1>3 DEF SelectCurrent
  <2> DEFINE after == [proc[q] EXCEPT !.pc = AfterSelect(q), !.base = r]
  <2>2. AfterSelect(q) \in {"pending", "install"} /\ r \in Nat
    BY DEF AfterSelect, IInv, TypeOK
  <2>3. PICK changed \in Locals :
          Step(q, changed) /\ changed.pc \in {"pending", "install"} /\ changed.base = r
    <3>1. after \in Locals /\ after.pc \in {"pending", "install"} /\ after.base = r
      BY <1>1, <2>2 DEF Locals, JobPcs, SharedPcs, Operations
    <3>2. QED
      BY <2>1, <3>1
  <2>4. InTurn(changed) /\ BuildsOnLast(changed)
    BY <2>3 DEF InTurn, BuildsOnLast, Alone
  <2>5. QED
    BY <1>1, <2>3, <2>4, AloneQuietStep
<1>4. QED
  BY <1>2, <1>3

LEMMA SeedBeginAlone ==
  ASSUME IInv, Alone, NEW q \in Procs, SeedBegin(q)
  PROVE  AloneInv'
<1> DEFINE after == [proc[q] EXCEPT !.pc = "seedCommit", !.unset = isCurrent]
<1>1. proc[q].pc = "seed" /\ Step(q, after) /\ UNCHANGED <<rows, isCurrent, inForce, overlapped>>
  BY DEF SeedBegin, Awaits, tables, history
<1>2. after \in Locals /\ after.pc = "seedCommit" /\ after.unset = isCurrent
  BY DEF IInv, TypeOK, Locals, JobPcs, SharedPcs
<1>3. PICK changed \in Locals : Step(q, changed) /\ changed.pc = "seedCommit" /\ changed.unset = isCurrent
  BY <1>1, <1>2
<1>4. InTurn(changed) /\ BuildsOnLast(changed)
  BY <1>3 DEF InTurn, BuildsOnLast, Building, Switching
<1>5. QED
  BY <1>1, <1>3, <1>4, AloneQuietStep

LEMMA SelectPendingAlone ==
  ASSUME IInv, Alone, NEW j \in Jobs, SelectPending(j)
  PROVE  AloneInv'
<1>1. /\ j \in Procs /\ proc[j].pc = "pending" /\ proc[j] \in Locals
      /\ UNCHANGED <<rows, isCurrent, inForce, overlapped>>
  BY ProcFacts DEF SelectPending, Awaits, tables, history, IInv, TypeOK
<1> DEFINE waiting == {p \in Proposals : status[p] = "pending"}
<1>2. CASE waiting = {}
  BY <1>1, <1>2, IdleFacts, IdleIsAlone, AloneQuietStep DEF SelectPending, Stop
<1>3. CASE waiting # {}
  <2>1. PICK p \in waiting, pc \in {"create", "reject"} :
          Step(j, [proc[j] EXCEPT !.pc = pc, !.proposal = p])
    BY <1>3 DEF SelectPending
  <2> DEFINE after == [proc[j] EXCEPT !.pc = pc, !.proposal = p]
  <2>2. /\ after \in Locals
        /\ after.pc \in {"create", "reject"} /\ after.base = proc[j].base
    BY <1>1, RolloutAssumption DEF Locals, JobPcs, Operations
  <2>3. PICK changed \in Locals :
          Step(j, changed) /\ changed.pc \in {"create", "reject"} /\ changed.base = proc[j].base
    BY <2>1, <2>2
  <2>4. InTurn(changed) /\ BuildsOnLast(changed)
    BY <1>1, <2>3 DEF InTurn, BuildsOnLast, Building, Alone
  <2>5. QED
    BY <1>1, <2>3, <2>4, AloneQuietStep
<1>4. QED
  BY <1>2, <1>3

LEMMA InstallAlone ==
  ASSUME IInv, Alone, NEW q \in Procs, Install(q)
  PROVE  AloneInv'
BY IdleFacts, IdleIsAlone, AloneQuietStep DEF Install, Stop, Awaits, tables, history

(* The steps in which a decision only goes on, whether they succeed or not. *)
LEMMA GoOnAlone ==
  ASSUME IInv, Alone, NEW q \in Procs, proc[q].pc # "idle", UNCHANGED <<rows, isCurrent, inForce, overlapped>>,
         NEW pc \in Switched \cup {"auditReject"}, Goto(q, pc)
  PROVE  AloneInv'
<1>1. pc \in JobPcs
  BY DEF Switched, JobPcs, SharedPcs, Operations
<1>2. PICK changed \in Locals : Step(q, changed) /\ changed.pc = pc
  BY <1>1, GoneOn
<1>3. InTurn(changed) /\ BuildsOnLast(changed)
  BY <1>2 DEF InTurn, BuildsOnLast, Building, Switching, Switched
<1>4. QED
  BY <1>2, <1>3, AloneQuietStep

LEMMA MarkStatusAlone ==
  ASSUME IInv, Alone, NEW j \in Jobs, MarkStatus(j)
  PROVE  AloneInv'
BY GoOnAlone, ProcFacts DEF MarkStatus, Awaits, history, Switched

LEMMA AuditAlone ==
  ASSUME IInv, Alone, NEW j \in Jobs, Audit(j)
  PROVE  AloneInv'
<1>1. j \in Procs /\ proc[j].pc # "idle" /\ UNCHANGED <<rows, isCurrent, inForce, overlapped>>
  BY ProcFacts DEF Audit, Awaits, history
<1>2. CASE proc[j].pc = "auditApply"
  BY <1>1, <1>2, GoOnAlone DEF Audit, Awaits, Switched
<1>3. CASE proc[j].pc # "auditApply"
  BY <1>1, <1>3, IdleFacts, IdleIsAlone, AloneQuietStep DEF Audit, Awaits, Stop
<1>4. QED
  BY <1>2, <1>3

LEMMA FailAlone ==
  ASSUME IInv, Alone, NEW q \in Procs, Fail(q)
  PROVE  AloneInv'
<1>1. proc[q].pc # "idle" /\ UNCHANGED <<rows, isCurrent, inForce, overlapped>>
  BY DEF Fail, Operations, tables, history
<1>2. CASE Step(q, Idle)
  BY <1>1, <1>2, IdleFacts, IdleIsAlone, AloneQuietStep
<1>3. ASSUME NEW pc \in {"auditReject", "auditApply", "install"}, Goto(q, pc)
      PROVE  AloneInv'
  BY <1>1, <1>3, GoOnAlone DEF Switched
<1>4. QED
  BY <1>2, <1>3 DEF Fail, Stop

LEMMA CreateRowAlone ==
  ASSUME IInv, Alone, NEW j \in Jobs, CreateRow(j)
  PROVE  AloneInv'
<1>1. /\ j \in Procs /\ proc[j].pc = "create" /\ proc[j] \in Locals
      /\ proc[j].proposal \in Proposals /\ proc[j].base \in Nat
      /\ UNCHANGED <<isCurrent, inForce, overlapped>>
      /\ Step(j, [proc[j] EXCEPT !.pc = "unset", !.row = NextId])
      /\ rows' = NewRow(proc[j].proposal, proc[j].base)
  BY ProcFacts DEF CreateRow, Awaits, history, IInv, TypeOK, LocalsTruthful, LocalTruth, Creating, Locals
<1>2. PICK proposal \in Proposals, base \in Nat : proposal = proc[j].proposal /\ base = proc[j].base
  BY <1>1
<1>3. NextId \in Nat /\ \A r \in DOMAIN rows : rows'[r] = rows[r]
  <2>1. rows' = NewRow(proposal, base) /\ proposal \in Proposals \cup {Seed}
    BY <1>1, <1>2
  <2>2. QED
    BY <2>1, NewRowFacts DEF IInv
<1>4. PICK changed \in Locals : Step(j, changed) /\ changed.pc = "unset" /\ changed.base = proc[j].base
  <2> DEFINE after == [proc[j] EXCEPT !.pc = "unset", !.row = NextId]
  <2>1. after \in Locals /\ after.pc = "unset" /\ after.base = proc[j].base
    BY <1>1, <1>3 DEF Locals, JobPcs, Operations
  <2>2. QED
    BY <1>1, <2>1
<1>5. InTurn(changed)' /\ BuildsOnLast(changed)' /\ \A r \in isCurrent' : inForce' # << >> /\ r = Last'
  BY <1>1, <1>4 DEF InTurn, BuildsOnLast, Building, Last, Alone
<1>6. ChangesBuildOnCurrent'
  BY <1>1, <1>3 DEF Alone, ChangesBuildOnCurrent, IInv, RowsExist
<1>7. QED
  BY <1>1, <1>4, <1>5, <1>6, AloneStep

LEMMA UnsetCurrentAlone ==
  ASSUME IInv, Alone, NEW j \in Jobs, UnsetCurrent(j)
  PROVE  AloneInv'
<1>1. /\ j \in Procs /\ proc[j].pc = "unset" /\ Goto(j, "set") /\ "set" \in JobPcs
      /\ UNCHANGED <<rows, inForce, overlapped>> /\ isCurrent' = {}
  BY ProcFacts DEF UnsetCurrent, Awaits, history, JobPcs, Operations
<1>2. PICK changed \in Locals : Step(j, changed) /\ changed.pc = "set" /\ changed.base = proc[j].base
  BY <1>1, GoneOn
<1>3. InTurn(changed)' /\ BuildsOnLast(changed)' /\ \A r \in isCurrent' : inForce' # << >> /\ r = Last'
  BY <1>1, <1>2 DEF InTurn, BuildsOnLast, Building, Switching, Last, Alone
<1>4. ChangesBuildOnCurrent'
  BY <1>1 DEF Alone, ChangesBuildOnCurrent
<1>5. QED
  BY <1>1, <1>2, <1>3, <1>4, AloneStep

(* Nothing is current between the two UPDATEs, so the new row follows the   *)
(* one its job has read.                                                   *)
LEMMA SetCurrentAlone ==
  ASSUME IInv, Alone, NEW j \in Jobs, SetCurrent(j)
  PROVE  AloneInv'
<1>1. /\ j \in Procs /\ proc[j].pc = "set" /\ Goto(j, "markApplied") /\ "markApplied" \in JobPcs
      /\ UNCHANGED <<rows, overlapped>> /\ isCurrent = {}
      /\ isCurrent' = isCurrent \cup {proc[j].row} /\ inForce' = Append(inForce, proc[j].row)
      /\ proc[j].row \in Nat /\ rows[proc[j].row].base = proc[j].base
      /\ inForce # << >> /\ proc[j].base = Last
  BY ProcFacts DEF SetCurrent, Awaits, JobPcs, Operations, Alone, InTurn, BuildsOnLast, Building, Switching,
     IInv, TypeOK, LocalsTruthful, LocalTruth, Locals
<1>2. PICK row \in Nat : row = proc[j].row
  BY <1>1
<1>3. /\ Len(inForce') = Len(inForce) + 1 /\ inForce'[Len(inForce')] = row
      /\ DOMAIN inForce' = DOMAIN inForce \cup {Len(inForce')}
      /\ \A i \in DOMAIN inForce : inForce'[i] = inForce[i]
      /\ inForce' # << >>
  <2>1. inForce' = Append(inForce, row)
    BY <1>1, <1>2
  <2>2. QED
    BY <2>1, InForceFacts DEF IInv, TypeOK
<1>4. PICK changed \in Locals : Step(j, changed) /\ changed.pc = "markApplied"
  BY <1>1, GoneOn
<1>5. InTurn(changed)' /\ BuildsOnLast(changed)'
  BY <1>4 DEF InTurn, BuildsOnLast, Building, Switching
<1>6. \A r \in isCurrent' : inForce' # << >> /\ r = Last'
  BY <1>1, <1>2, <1>3 DEF Last
<1>7. ChangesBuildOnCurrent'
  <2> SUFFICES ASSUME ~overlapped, NEW i \in DOMAIN inForce', rows[inForce'[i]].proposal # Seed
               PROVE  i > 1 /\ rows[inForce'[i]].base = inForce'[i - 1]
    BY <1>1 DEF ChangesBuildOnCurrent
  <2>1. inForce \in Seq(Nat) /\ Len(inForce) \in Nat \ {0} /\ DOMAIN inForce = 1 .. Len(inForce)
    BY <1>1 DEF IInv, TypeOK
  <2>2. CASE i \in DOMAIN inForce
    <3>1. i > 1 /\ rows[inForce[i]].base = inForce[i - 1]
      BY <1>3, <2>2 DEF Alone, ChangesBuildOnCurrent
    <3>2. QED
      BY <1>3, <2>1, <2>2, <3>1
  <2>3. CASE i = Len(inForce')
    <3>1. i - 1 = Len(inForce) /\ i > 1
      BY <1>3, <2>1, <2>3
    <3>2. inForce'[i - 1] = Last
      BY <1>3, <2>1, <3>1 DEF Last
    <3>3. QED
      BY <1>1, <1>2, <1>3, <2>3, <3>1, <3>2
  <2>4. QED
    BY <1>3, <2>2, <2>3
<1>8. QED
  BY <1>1, <1>4, <1>5, <1>6, <1>7, AloneStep

LEMMA SeedCommitAlone ==
  ASSUME IInv, Alone, NEW q \in Procs, SeedCommit(q)
  PROVE  AloneInv'
<1>1. /\ proc[q] \in Locals /\ proc[q].pc = "seedCommit"
      /\ UNCHANGED overlapped
      /\ rows' = NewRow(Seed, 0)
      /\ isCurrent' = {NextId}
      /\ inForce' = Append(inForce, NextId)
      /\ Step(q, [proc[q] EXCEPT !.pc = AfterSelect(q), !.base = NextId, !.unset = {}])
  BY DEF SeedCommit, Awaits, Alone, InTurn, IInv, TypeOK
<1>2. /\ NextId \in Nat /\ rows'[NextId].proposal = Seed
      /\ \A r \in DOMAIN rows : rows'[r] = rows[r]
  <2>1. Seed \in Proposals \cup {Seed} /\ 0 \in Nat
    OBVIOUS
  <2>2. /\ NextId \in Nat /\ rows'[NextId] = [proposal |-> Seed, base |-> 0]
        /\ \A r \in DOMAIN rows : rows'[r] = rows[r]
    BY <1>1, <2>1, NewRowFacts DEF IInv
  <2>3. QED
    BY <2>2
<1>3. PICK row \in Nat : row = NextId
  BY <1>2
<1>4. /\ Len(inForce') = Len(inForce) + 1 /\ inForce'[Len(inForce')] = row
      /\ DOMAIN inForce' = DOMAIN inForce \cup {Len(inForce')}
      /\ \A i \in DOMAIN inForce : inForce'[i] = inForce[i]
      /\ inForce' # << >>
  <2>1. inForce' = Append(inForce, row)
    BY <1>1, <1>3
  <2>2. QED
    BY <2>1, InForceFacts DEF IInv, TypeOK
<1>5. PICK changed \in Locals : Step(q, changed) /\ changed.pc = AfterSelect(q) /\ changed.base = row
  <2> DEFINE after == [proc[q] EXCEPT !.pc = AfterSelect(q), !.base = NextId, !.unset = {}]
  <2>1. AfterSelect(q) \in JobPcs
    BY DEF AfterSelect, JobPcs, SharedPcs, Operations
  <2>2. after \in Locals /\ after.pc = AfterSelect(q) /\ after.base = NextId
    BY <1>1, <1>2, <2>1 DEF Locals
  <2>3. QED
    BY <1>1, <1>3, <2>2
<1>6. Last' = row
  BY <1>4 DEF Last
<1>7. InTurn(changed)' /\ BuildsOnLast(changed)'
  BY <1>4, <1>5, <1>6 DEF AfterSelect, InTurn, BuildsOnLast
<1>8. \A r \in isCurrent' : inForce' # << >> /\ r = Last'
  BY <1>1, <1>3, <1>4, <1>6
<1>9. ChangesBuildOnCurrent'
  <2> SUFFICES ASSUME ~overlapped, NEW i \in DOMAIN inForce', rows'[inForce'[i]].proposal # Seed
               PROVE  i > 1 /\ rows'[inForce'[i]].base = inForce'[i - 1]
    BY <1>1 DEF ChangesBuildOnCurrent
  <2>1. i \in DOMAIN inForce
    BY <1>2, <1>3, <1>4
  <2>2. inForce'[i] = inForce[i] /\ inForce[i] \in DOMAIN rows
    BY <1>4, <2>1 DEF IInv, RowsExist
  <2>3. i > 1 /\ rows[inForce[i]].base = inForce[i - 1]
    BY <1>2, <2>1, <2>2 DEF Alone, ChangesBuildOnCurrent
  <2>4. i - 1 \in DOMAIN inForce
    BY <2>1, <2>3 DEF IInv, TypeOK
  <2>5. QED
    BY <1>2, <1>4, <2>2, <2>3, <2>4
<1>10. QED
  BY <1>1, <1>5, <1>7, <1>8, <1>9, AloneStep
-----------------------------------------------------------------------------
LEMMA AloneInvStep == IInv /\ AloneInv /\ [Next]_vars => AloneInv'
<1> SUFFICES ASSUME IInv, AloneInv, [Next]_vars PROVE AloneInv'
  OBVIOUS
<1>1. ASSUME UNCHANGED <<rows, isCurrent, proc, inForce, overlapped>> PROVE AloneInv'
  BY <1>1 DEF AloneInv, Alone, InTurn, BuildsOnLast, Last, ChangesBuildOnCurrent
<1>2. ASSUME NEW p \in Proposals, SaveProposal(p) PROVE AloneInv'
  BY <1>1, <1>2 DEF SaveProposal, history
<1>3. CASE WindowOpens \/ WindowCloses \/ UNCHANGED vars
  BY <1>1, <1>3 DEF WindowOpens, WindowCloses, vars, tables, history
<1>4. CASE StartRefresh
  BY <1>4, ProcFacts, BeginAlone DEF StartRefresh
<1>5. CASE Crash
  BY <1>5, CrashAlone
<1>6. ASSUME NEW j \in Jobs, StartApply(j) PROVE AloneInv'
  BY <1>6, ProcFacts, BeginAlone DEF StartApply
<1>7. ASSUME NEW q \in Procs, GetCurrent(q) \/ Install(q) \/ Fail(q) PROVE AloneInv'
  <2>1. CASE Alone
    BY <1>7, <2>1, SelectCurrentAlone, SeedBeginAlone, SeedCommitAlone, InstallAlone, FailAlone DEF GetCurrent
  <2>2. CASE overlapped
    BY <1>7, <2>2 DEF GetCurrent, SelectCurrent, SeedBegin, SeedCommit, Install, Fail, history, AloneInv
  <2>3. QED
    BY <2>1, <2>2 DEF AloneInv
<1>8. ASSUME NEW j \in Jobs, Apply(j) PROVE AloneInv'
  <2>1. CASE Alone
    BY <1>8, <2>1, SelectPendingAlone, MarkStatusAlone, AuditAlone, CreateRowAlone, UnsetCurrentAlone,
       SetCurrentAlone DEF Apply
  <2>2. CASE overlapped
    BY <1>8, <2>2 DEF Apply, SelectPending, MarkStatus, Audit, CreateRow, UnsetCurrent, SetCurrent,
       history, AloneInv
  <2>3. QED
    BY <2>1, <2>2 DEF AloneInv
<1>9. QED
  BY <1>2, <1>3, <1>4, <1>5, <1>6, <1>7, <1>8 DEF Next

LEMMA AloneInvHolds == Spec => []AloneInv
BY InitAlone, AloneInvStep, InvariantHolds, PTL DEF Spec

(* At most one row is current until two callbacks have been in flight at    *)
(* once, whatever fails and wherever the executor dies.                    *)
THEOREM OneRowCurrent == Spec => []AtMostOneCurrent
<1>1. AloneInv => AtMostOneCurrent
  <2> SUFFICES ASSUME Alone PROVE Cardinality(isCurrent) <= 1
    BY DEF AloneInv, AtMostOneCurrent
  <2>1. CASE isCurrent = {}
    BY <2>1, FS_EmptySet
  <2>2. CASE isCurrent # {}
    <3>1. isCurrent = {Last}
      BY <2>2 DEF Alone
    <3>2. PICK row : row = Last
      OBVIOUS
    <3>3. Cardinality({row}) = 1
      BY FS_Singleton
    <3>4. QED
      BY <3>1, <3>2, <3>3
  <2>3. QED
    BY <2>1, <2>2
<1>2. QED
  BY <1>1, AloneInvHolds, PTL

(* Until then every change is made to the parameters that it replaces: no   *)
(* update is lost.                                                         *)
THEOREM NoUpdateLost == Spec => []ChangesBuildOnCurrent
<1>1. AloneInv => ChangesBuildOnCurrent
  BY DEF AloneInv, Alone, ChangesBuildOnCurrent
<1>2. QED
  BY <1>1, AloneInvHolds, PTL
-----------------------------------------------------------------------------
(* The refinement of ProposalDecisions: one callback of the apply loop at a *)
(* time, beside the refresh loop, and no operation that fails.  Otherwise a *)
(* proposal that is in force may still be pending, and is applied again.    *)
OneJobNoFaults == (\A j, other \in Jobs : j = other) /\ ~DbFails /\ ~Crashes

Deciding == {"create", "reject", "unset", "set", "markApplied"}

(* A proposal is pending while it is decided; one whose row is in force is  *)
(* marked, or will be by the job that has just put it there.               *)
DecideInv ==
  /\ \A p \in Proposals : AppliedRows(p) # {} =>
       status[p] = "applied" \/ \E j \in Jobs : Awaits(j, "markApplied") /\ proc[j].proposal = p
  /\ \A j \in Jobs : proc[j].pc \in Deciding => status[proc[j].proposal] = "pending"

(* The refinement mapping of DecidedOnce.                                  *)
Verdict == [p \in Proposals |-> IF AppliedRows(p) # {} THEN "applied" ELSE status[p]]
Chain == [i \in DOMAIN inForce |-> rows[inForce[i]].proposal]

LEMMA InitDecide == Init => DecideInv /\ Decisions!DecisionsInit
<1> SUFFICES ASSUME Init PROVE DecideInv /\ Decisions!DecisionsInit
  OBVIOUS
<1>1. inForce = << >> /\ InForce = {} /\ \A p \in Proposals : AppliedRows(p) = {}
  BY DEF Init, InForce, AppliedRows
<1>2. \A j \in Jobs : proc[j].pc = "idle"
  BY ProcFacts DEF Init, Idle
<1>3. Chain = << >>
  BY <1>1 DEF Chain
<1>4. Verdict = [p \in Proposals |-> "unsaved"]
  BY <1>1 DEF Init, Verdict
<1>5. QED
  BY <1>1, <1>2, <1>3, <1>4 DEF DecideInv, Deciding, Decisions!DecisionsInit, Verdict, Chain

(* What is in force means the same after rows have been appended.           *)
LEMMA SameInForce ==
  ASSUME IInv, RowsGrow, UNCHANGED inForce
  PROVE  Chain' = Chain /\ \A p \in Proposals : AppliedRows(p)' = AppliedRows(p)
<1>1. /\ \A i \in DOMAIN inForce : rows'[inForce[i]] = rows[inForce[i]]
      /\ \A r \in InForce : rows'[r] = rows[r]
  BY DEF IInv, RowsExist, RowsGrow, InForce
<1>2. Chain' = Chain
  BY <1>1 DEF Chain
<1>3. QED
  BY <1>1, <1>2 DEF AppliedRows, InForce

(* Steps that decide nothing.                                              *)
LEMMA UndecidedStep ==
  ASSUME IInv, DecideInv, RowsGrow, UNCHANGED <<inForce, status>>,
         \A j \in Jobs : proc'[j] = proc[j] \/
           (proc[j].pc # "markApplied" /\
            (proc'[j].pc \in Deciding => status[proc'[j].proposal] = "pending"))
  PROVE  DecideInv' /\ UNCHANGED <<Verdict, Chain>>
<1>1. Chain' = Chain /\ \A p \in Proposals : AppliedRows(p)' = AppliedRows(p)
  BY SameInForce
<1>2. Verdict' = Verdict
  BY <1>1 DEF Verdict
<1>3. ASSUME NEW p \in Proposals, AppliedRows(p)' # {}, status'[p] # "applied"
      PROVE  \E j \in Jobs : proc'[j].pc = "markApplied" /\ proc'[j].proposal = p
  BY <1>1, <1>3 DEF DecideInv, Awaits
<1>4. \A j \in Jobs : proc'[j].pc \in Deciding => status'[proc'[j].proposal] = "pending"
  BY DEF DecideInv
<1>5. QED
  BY <1>1, <1>2, <1>3, <1>4 DEF DecideInv, Awaits

(* The row that comes into force is that of p, or seeded.                   *)
LEMMA ChainGrows ==
  ASSUME IInv, RowsGrow, NEW r \in Nat, inForce' = Append(inForce, r), r \in DOMAIN rows'
  PROVE  /\ Chain' = Append(Chain, rows'[r].proposal)
         /\ \A p \in Proposals :
              AppliedRows(p)' = IF rows'[r].proposal = p THEN AppliedRows(p) \cup {r} ELSE AppliedRows(p)
<1>1. /\ inForce \in Seq(Nat) /\ inForce' \in Seq(Nat)
      /\ Len(inForce') = Len(inForce) + 1 /\ inForce'[Len(inForce')] = r
      /\ DOMAIN inForce' = DOMAIN inForce \cup {Len(inForce')}
      /\ \A i \in DOMAIN inForce : inForce'[i] = inForce[i]
      /\ InForce' = InForce \cup {r}
  BY InForceFacts DEF IInv, TypeOK
<1>2. /\ \A i \in DOMAIN inForce : rows'[inForce[i]] = rows[inForce[i]]
      /\ \A s \in InForce : rows'[s] = rows[s]
  BY DEF IInv, RowsExist, RowsGrow, InForce
<1>3. Chain' = Append(Chain, rows'[r].proposal)
  <2>1. DOMAIN inForce = 1 .. Len(inForce) /\ Len(inForce) \in Nat
    BY <1>1
  <2>2. Chain \in Seq({rows[inForce[i]].proposal : i \in DOMAIN inForce}) /\ Len(Chain) = Len(inForce)
    BY <2>1 DEF Chain
  <2>3. Append(Chain, rows'[r].proposal) =
          [i \in 1 .. Len(inForce) + 1 |-> IF i = Len(inForce) + 1 THEN rows'[r].proposal ELSE Chain[i]]
    BY <2>1, <2>2
  <2>4. DOMAIN inForce' = 1 .. Len(inForce) + 1
    BY <1>1
  <2>5. QED
    BY <1>1, <1>2, <2>1, <2>3, <2>4 DEF Chain
<1>4. ASSUME NEW p \in Proposals
      PROVE  AppliedRows(p)' = IF rows'[r].proposal = p THEN AppliedRows(p) \cup {r} ELSE AppliedRows(p)
  BY <1>1, <1>2 DEF AppliedRows
<1>5. QED
  BY <1>3, <1>4

(* ... among them those of one callback that is not just after the switch. *)
LEMMA UndecidedLocals ==
  ASSUME IInv, DecideInv, RowsGrow, UNCHANGED <<inForce, status>>, NEW q \in Procs, NEW changed,
         proc' = [proc EXCEPT ![q] = changed],
         q \in Jobs => proc[q].pc # "markApplied" /\
           (changed.pc \in Deciding => status[changed.proposal] = "pending")
  PROVE  DecideInv' /\ UNCHANGED <<Verdict, Chain>>
<1>1. proc'[q] = changed /\ \A other \in Procs \ {q} : proc'[other] = proc[other]
  BY DEF IInv, TypeOK
<1>2. \A j \in Jobs : proc'[j] = proc[j] \/
        (proc[j].pc # "markApplied" /\
         (proc'[j].pc \in Deciding => status[proc'[j].proposal] = "pending"))
  BY <1>1, ProcFacts
<1>3. QED
  BY <1>2, UndecidedStep

LEMMA SameTables ==
  ASSUME UNCHANGED <<rows, inForce>>
  PROVE  RowsGrow
BY DEF RowsGrow

LEMMA UndecidedActions ==
  ASSUME IInv, DecideInv, NEW q \in Procs,
         SelectCurrent(q) \/ SeedBegin(q) \/ Install(q) \/ (Begin(q) /\ Awaits(q, "idle"))
  PROVE  DecideInv' /\ UNCHANGED <<Verdict, Chain>>
<1>1. RowsGrow /\ UNCHANGED <<inForce, status>> /\ proc[q] \in Locals
  BY SameTables DEF SelectCurrent, SeedBegin, Install, Begin, tables, history, IInv, TypeOK
<1>2. PICK changed \in Locals :
        proc' = [proc EXCEPT ![q] = changed] /\ changed.pc \notin Deciding
  <2>1. CASE SelectCurrent(q)
    <3>1. CASE isCurrent = {}
      <4>1. proc' = [proc EXCEPT ![q] = [proc[q] EXCEPT !.pc = "seed"]]
        BY <2>1, <3>1 DEF SelectCurrent, Goto, Step
      <4>2. [proc[q] EXCEPT !.pc = "seed"] \in Locals /\ [proc[q] EXCEPT !.pc = "seed"].pc = "seed"
        BY <1>1 DEF Locals, JobPcs, SharedPcs
      <4>3. QED
        BY <4>1, <4>2 DEF Deciding
    <3>2. CASE isCurrent # {}
      <4>1. PICK r \in isCurrent :
              proc' = [proc EXCEPT ![q] = [proc[q] EXCEPT !.pc = AfterSelect(q), !.base = r]]
        BY <2>1, <3>2 DEF SelectCurrent, Step
      <4>2. r \in Nat
        BY DEF IInv, TypeOK
      <4>3. [proc[q] EXCEPT !.pc = AfterSelect(q), !.base = r] \in Locals
        BY <1>1, <4>2 DEF Locals, JobPcs, SharedPcs, Operations, AfterSelect
      <4>4. [proc[q] EXCEPT !.pc = AfterSelect(q), !.base = r].pc \notin Deciding
        BY <1>1, <4>2 DEF Locals, Deciding, AfterSelect
      <4>5. QED
        BY <4>1, <4>3, <4>4
    <3>3. QED
      BY <3>1, <3>2
  <2>2. CASE SeedBegin(q)
    <3>1. proc' = [proc EXCEPT ![q] = [proc[q] EXCEPT !.pc = "seedCommit", !.unset = isCurrent]]
      BY <2>2 DEF SeedBegin, Step
    <3>2. isCurrent \in SUBSET Nat
      BY DEF IInv, TypeOK
    <3>3. [proc[q] EXCEPT !.pc = "seedCommit", !.unset = isCurrent] \in Locals
      BY <1>1, <3>2 DEF Locals, JobPcs, SharedPcs
    <3>4. [proc[q] EXCEPT !.pc = "seedCommit", !.unset = isCurrent].pc \notin Deciding
      BY <1>1, <3>2 DEF Locals, Deciding
    <3>5. QED
      BY <3>1, <3>3, <3>4
  <2>3. CASE Install(q)
    BY <2>3, IdleFacts DEF Install, Stop, Step, Idle, Deciding
  <2>4. CASE Begin(q)
    BY <2>4, IdleFacts DEF Begin, Step, Idle, Deciding
  <2>5. QED
    BY <2>1, <2>2, <2>3, <2>4
<1>3. proc[q].pc # "markApplied"
  BY DEF SelectCurrent, SeedBegin, Install, Begin, Awaits
<1>4. QED
  BY <1>1, <1>2, <1>3, UndecidedLocals

(* The job that selects a proposal takes one that is pending, and keeps it  *)
(* pending until it has decided.                                           *)
LEMMA UndecidedJobActions ==
  ASSUME IInv, DecideInv, NEW j \in Jobs, SelectPending(j) \/ Audit(j) \/ CreateRow(j) \/ UnsetCurrent(j)
  PROVE  DecideInv' /\ UNCHANGED <<Verdict, Chain>>
<1>1. /\ UNCHANGED <<inForce, status>> /\ j \in Procs /\ proc[j] \in Locals
      /\ proc[j].pc # "markApplied"
  BY ProcFacts DEF SelectPending, Audit, CreateRow, UnsetCurrent, Awaits, tables, history, IInv, TypeOK
<1>2. RowsGrow
  <2>1. CASE CreateRow(j)
    <3>1. /\ proc[j].proposal \in Proposals /\ proc[j].base \in Nat
          /\ rows' = NewRow(proc[j].proposal, proc[j].base)
      BY <1>1, <2>1 DEF CreateRow, Awaits, IInv, LocalsTruthful, LocalTruth, Creating, Locals
    <3>2. PICK p \in Proposals, b \in Nat : rows' = NewRow(p, b)
      BY <3>1
    <3>3. p \in Proposals \cup {Seed} /\ TypeOK
      BY DEF IInv
    <3>4. DOMAIN rows' = DOMAIN rows \cup {NextId} /\ \A r \in DOMAIN rows : rows'[r] = rows[r]
      BY <3>2, <3>3, NewRowFacts
    <3>5. QED
      BY <1>1, <3>4 DEF RowsGrow
  <2>2. CASE SelectPending(j) \/ Audit(j) \/ UnsetCurrent(j)
    BY <2>2, SameTables DEF SelectPending, Audit, UnsetCurrent, tables, history
  <2>3. QED
    BY <2>1, <2>2
<1>3. PICK changed :
        /\ proc' = [proc EXCEPT ![j] = changed]
        /\ changed.pc \in Deciding => status[changed.proposal] = "pending"
  <2>1. CASE SelectPending(j)
    <3> DEFINE waiting == {p \in Proposals : status[p] = "pending"}
    <3>1. CASE waiting = {}
      <4>1. proc' = [proc EXCEPT ![j] = Idle]
        BY <2>1, <3>1 DEF SelectPending, Stop, Step
      <4>2. Idle.pc \notin Deciding
        BY DEF Idle, Deciding
      <4>3. QED
        BY <4>1, <4>2
    <3>2. CASE waiting # {}
      <4>1. PICK p \in waiting, pc \in {"create", "reject"} :
              proc' = [proc EXCEPT ![j] = [proc[j] EXCEPT !.pc = pc, !.proposal = p]]
        BY <2>1, <3>2 DEF SelectPending, Step
      <4>2. [proc[j] EXCEPT !.pc = pc, !.proposal = p].proposal = p
        BY <1>1 DEF Locals
      <4>3. QED
        BY <4>1, <4>2
    <3>3. QED
      BY <3>1, <3>2
  <2>2. CASE Audit(j)
    <3>1. \/ proc' = [proc EXCEPT ![j] = [proc[j] EXCEPT !.pc = "install"]]
          \/ proc' = [proc EXCEPT ![j] = Idle]
      BY <2>2 DEF Audit, Goto, Stop, Step
    <3>2. Idle.pc \notin Deciding /\ [proc[j] EXCEPT !.pc = "install"].pc \notin Deciding
      BY <1>1 DEF Idle, Deciding, Locals
    <3>3. QED
      BY <3>1, <3>2
  <2>3. ASSUME NEW pc \in {"unset", "set"}, NEW row \in Nat, proc[j].pc \in {"create", "unset"},
               \/ proc' = [proc EXCEPT ![j] = [proc[j] EXCEPT !.pc = pc, !.row = row]]
               \/ proc' = [proc EXCEPT ![j] = [proc[j] EXCEPT !.pc = pc]]
        PROVE  \E changed :
                 /\ proc' = [proc EXCEPT ![j] = changed]
                 /\ changed.pc \in Deciding => status[changed.proposal] = "pending"
    <3>1. /\ [proc[j] EXCEPT !.pc = pc, !.row = row].proposal = proc[j].proposal
          /\ [proc[j] EXCEPT !.pc = pc].proposal = proc[j].proposal
      BY <1>1 DEF Locals
    <3>2. status[proc[j].proposal] = "pending"
      BY <2>3 DEF DecideInv, Deciding
    <3>3. QED
      BY <2>3, <3>1, <3>2
  <2>4. CASE CreateRow(j)
    <3>1. PICK row \in Nat : row = NextId
      BY DEF NextId, IInv, TypeOK
    <3>2. proc[j].pc = "create" /\ proc' = [proc EXCEPT ![j] = [proc[j] EXCEPT !.pc = "unset", !.row = row]]
      BY <2>4, <3>1 DEF CreateRow, Awaits, Step
    <3>3. QED
      BY <2>3, <3>2
  <2>5. CASE UnsetCurrent(j)
    <3>1. proc[j].pc = "unset" /\ proc' = [proc EXCEPT ![j] = [proc[j] EXCEPT !.pc = "set"]]
      BY <2>5 DEF UnsetCurrent, Awaits, Goto, Step
    <3>2. 0 \in Nat
      OBVIOUS
    <3>3. QED
      BY <2>3, <3>1, <3>2
  <2>6. QED
    BY <2>1, <2>2, <2>4, <2>5
<1>4. QED
  BY <1>1, <1>2, <1>3, UndecidedLocals

(* A new proposal is not in force.                                         *)
LEMMA SaveProposalDecides ==
  ASSUME IInv, DecideInv, NEW p \in Proposals, SaveProposal(p)
  PROVE  DecideInv' /\ Decisions!Make(p)
<1>1. /\ UNCHANGED <<rows, inForce, proc>> /\ status[p] = "unsaved"
      /\ status' = [status EXCEPT ![p] = "pending"] /\ status \in [Proposals -> Statuses]
  BY DEF SaveProposal, history, IInv, TypeOK
<1>2. Chain' = Chain /\ \A s \in Proposals : AppliedRows(s)' = AppliedRows(s)
  BY <1>1, SameTables, SameInForce
<1>3. \A j \in Jobs : proc[j].pc \in Deciding => proc[j].proposal \in Proposals \ {p}
  BY <1>1 DEF IInv, LocalsTruthful, LocalTruth, Creating, Switching, Switched, Deciding, DecideInv
<1>4. AppliedRows(p) = {}
  BY <1>1, <1>3 DEF DecideInv, Awaits, Deciding
<1>5. Verdict[p] = "unsaved" /\ Verdict' = [Verdict EXCEPT ![p] = "pending"]
  BY <1>1, <1>2, <1>4 DEF Verdict
<1>6. ASSUME NEW s \in Proposals, AppliedRows(s)' # {}, status'[s] # "applied"
      PROVE  \E j \in Jobs : proc'[j].pc = "markApplied" /\ proc'[j].proposal = s
  BY <1>1, <1>2, <1>4, <1>6 DEF DecideInv, Awaits
<1>7. \A j \in Jobs : proc'[j].pc \in Deciding => status'[proc'[j].proposal] = "pending"
  BY <1>1, <1>3 DEF DecideInv
<1>8. QED
  BY <1>2, <1>5, <1>6, <1>7 DEF DecideInv, Awaits, Decisions!Make, Verdict, Chain

(* Seeded defaults come from no proposal.                                  *)
LEMMA SeedCommitDecides ==
  ASSUME IInv, DecideInv, NEW q \in Procs, SeedCommit(q)
  PROVE  DecideInv' /\ Decisions!InstallSeed
<1>1. PICK r \in Nat : r = NextId
  BY DEF NextId, IInv, TypeOK
<1>2. /\ UNCHANGED status /\ rows' = NewRow(Seed, 0) /\ inForce' = Append(inForce, r)
      /\ proc[q].pc = "seedCommit" /\ proc[q] \in Locals
      /\ proc' = [proc EXCEPT ![q] = [proc[q] EXCEPT !.pc = AfterSelect(q), !.base = r, !.unset = {}]]
  BY <1>1 DEF SeedCommit, Awaits, Step, IInv, TypeOK
<1>3. RowsGrow /\ r \in DOMAIN rows' /\ rows'[r] = [proposal |-> Seed, base |-> 0]
  <2>0. TypeOK /\ Seed \in Proposals \cup {Seed} /\ 0 \in Nat
    BY DEF IInv
  <2>1. /\ DOMAIN rows' = DOMAIN rows \cup {r} /\ rows'[r] = [proposal |-> Seed, base |-> 0]
        /\ \A s \in DOMAIN rows : rows'[s] = rows[s]
    BY <1>1, <1>2, <2>0, NewRowFacts
  <2>2. \A i \in DOMAIN inForce : i \in DOMAIN inForce' /\ inForce'[i] = inForce[i]
    BY <1>2, InForceFacts DEF IInv
  <2>3. QED
    BY <2>1, <2>2 DEF RowsGrow
<1>4. Seed \notin Proposals
  BY RolloutAssumption DEF Seed
<1>5. Chain' = Append(Chain, Seed) /\ \A p \in Proposals : AppliedRows(p)' = AppliedRows(p)
  BY <1>2, <1>3, <1>4, ChainGrows
<1>6. Verdict' = Verdict
  BY <1>2, <1>5 DEF Verdict
<1>7. proc'[q].pc \notin Deciding /\ \A other \in Procs \ {q} : proc'[other] = proc[other]
  <2>1. [proc[q] EXCEPT !.pc = AfterSelect(q), !.base = r, !.unset = {}].pc = AfterSelect(q)
    BY <1>2 DEF Locals
  <2>2. AfterSelect(q) \notin Deciding
    BY DEF AfterSelect, Deciding
  <2>3. QED
    BY <1>2, <2>1, <2>2 DEF IInv, TypeOK
<1>8. ASSUME NEW s \in Proposals, AppliedRows(s)' # {}, status'[s] # "applied"
      PROVE  \E j \in Jobs : proc'[j].pc = "markApplied" /\ proc'[j].proposal = s
  <2>1. PICK j \in Jobs : proc[j].pc = "markApplied" /\ proc[j].proposal = s
    BY <1>2, <1>5, <1>8 DEF DecideInv, Awaits
  <2>2. j \in Procs \ {q}
    BY <1>2, <2>1, ProcFacts
  <2>3. QED
    BY <1>7, <2>1, <2>2
<1>9. \A j \in Jobs : proc'[j].pc \in Deciding => status'[proc'[j].proposal] = "pending"
  BY <1>2, <1>7, ProcFacts DEF DecideInv
<1>10. QED
  BY <1>5, <1>6, <1>8, <1>9 DEF DecideInv, Awaits, Decisions!InstallSeed, Verdict, Chain

(* The row of a pending proposal comes into force: with one job, no other   *)
(* row of it did before.                                                   *)
LEMMA SetCurrentDecides ==
  ASSUME IInv, DecideInv, OneJobNoFaults, NEW j \in Jobs, SetCurrent(j)
  PROVE  DecideInv' /\ \E p \in Proposals : Decisions!Accept(p)
<1>1. /\ j \in Procs /\ proc[j] \in Locals /\ LocalTruth(proc[j]) /\ proc[j].pc = "set"
      /\ UNCHANGED <<rows, status>> /\ inForce' = Append(inForce, proc[j].row)
      /\ proc' = [proc EXCEPT ![j] = [proc[j] EXCEPT !.pc = "markApplied"]]
      /\ status \in [Proposals -> Statuses]
  BY ProcFacts DEF SetCurrent, Awaits, Goto, Step, IInv, TypeOK, LocalsTruthful
<1>2. PICK p \in Proposals, r \in Nat :
        p = proc[j].proposal /\ r = proc[j].row /\ r \in DOMAIN rows /\ rows[r].proposal = p
  BY <1>1 DEF LocalTruth, Switching, Locals
<1>3. status[p] = "pending"
  BY <1>1, <1>2 DEF DecideInv, Deciding
<1>4. \A s \in Proposals : AppliedRows(s) # {} => status[s] = "applied"
  BY <1>1 DEF DecideInv, Awaits, OneJobNoFaults
<1>5. RowsGrow
  BY <1>1, <1>2, InForceFacts DEF RowsGrow, IInv
<1>6. /\ Chain' = Append(Chain, p)
      /\ \A s \in Proposals : AppliedRows(s)' = IF s = p THEN AppliedRows(s) \cup {r} ELSE AppliedRows(s)
  BY <1>1, <1>2, <1>5, ChainGrows
<1>7. Verdict[p] = "pending" /\ Verdict' = [Verdict EXCEPT ![p] = "applied"]
  BY <1>1, <1>3, <1>4, <1>6 DEF Verdict
<1>8. proc'[j].pc = "markApplied" /\ proc'[j].proposal = p
  BY <1>1, <1>2 DEF IInv, TypeOK, Locals
<1>9. \A other \in Jobs : proc'[other].pc \in Deciding => status'[proc'[other].proposal] = "pending"
  BY <1>1, <1>3, <1>8 DEF OneJobNoFaults
<1>10. ASSUME NEW s \in Proposals, AppliedRows(s)' # {}
       PROVE  status'[s] = "applied" \/ (proc'[j].pc = "markApplied" /\ proc'[j].proposal = s)
  <2>1. CASE s = p
    BY <1>8, <2>1
  <2>2. CASE s # p
    <3>1. AppliedRows(s) # {}
      BY <1>6, <1>10, <2>2
    <3>2. QED
      BY <1>1, <1>4, <1>10, <3>1
  <2>3. QED
    BY <2>1, <2>2
<1>11. QED
  BY <1>6, <1>7, <1>9, <1>10 DEF DecideInv, Awaits, Decisions!Accept, Verdict, Chain

(* The status follows the row that came into force, or tells the rejection. *)
LEMMA MarkStatusDecides ==
  ASSUME IInv, DecideInv, OneJobNoFaults, NEW j \in Jobs, MarkStatus(j)
  PROVE  DecideInv' /\ (UNCHANGED <<Verdict, Chain>> \/ \E p \in Proposals : Decisions!Reject(p))
<1> DEFINE applied == proc[j].pc = "markApplied"
           outcome == IF applied THEN "applied" ELSE "rejected"
<1>1. /\ j \in Procs /\ proc[j] \in Locals /\ LocalTruth(proc[j])
      /\ proc[j].pc \in {"markApplied", "reject"}
      /\ UNCHANGED <<rows, inForce>> /\ status' = [status EXCEPT ![proc[j].proposal] = outcome]
      /\ status \in [Proposals -> Statuses]
  BY ProcFacts DEF MarkStatus, Awaits, history, IInv, TypeOK, LocalsTruthful
<1>2. PICK p \in Proposals : p = proc[j].proposal
  BY <1>1 DEF LocalTruth, Creating, Switched
<1>3. proc'[j].pc \notin Deciding
  <2>1. PICK pc \in {"auditApply", "auditReject"} : proc' = [proc EXCEPT ![j] = [proc[j] EXCEPT !.pc = pc]]
    BY DEF MarkStatus, Goto, Step
  <2>2. QED
    BY <1>1, <2>1 DEF IInv, TypeOK, Locals, Deciding
<1>4. status[p] = "pending"
  BY <1>1, <1>2 DEF DecideInv, Deciding
<1>5. Chain' = Chain /\ \A s \in Proposals : AppliedRows(s)' = AppliedRows(s)
  BY <1>1, SameTables, SameInForce
<1>6. \A s \in Proposals : AppliedRows(s) # {} => status[s] = "applied" \/ (applied /\ s = p)
  BY <1>1, <1>2 DEF DecideInv, Awaits, OneJobNoFaults
<1>7. \A s \in Proposals : AppliedRows(s)' # {} => status'[s] = "applied"
  BY <1>1, <1>2, <1>4, <1>5, <1>6
<1>8. DecideInv'
  BY <1>3, <1>7 DEF DecideInv, OneJobNoFaults
<1>9. CASE applied
  <2>1. AppliedRows(p) # {}
    BY <1>1, <1>2, <1>9 DEF LocalTruth, Switched, AppliedRows
  <2>2. Verdict' = Verdict
    BY <1>1, <1>2, <1>5, <2>1 DEF Verdict
  <2>3. QED
    BY <1>5, <1>8, <2>2
<1>10. CASE ~applied
  <2>1. AppliedRows(p) = {}
    BY <1>4, <1>6, <1>10
  <2>2. Verdict[p] = "pending" /\ Verdict' = [Verdict EXCEPT ![p] = "rejected"]
    BY <1>1, <1>2, <1>4, <1>5, <1>10, <2>1 DEF Verdict
  <2>3. QED
    BY <1>5, <1>8, <2>2 DEF Decisions!Reject, Verdict, Chain
<1>11. QED
  BY <1>9, <1>10
-----------------------------------------------------------------------------
LEMMA DecideStep ==
  ASSUME OneJobNoFaults, IInv, DecideInv, [Next]_vars
  PROVE  DecideInv' /\ (Decisions!DecisionsNext \/ UNCHANGED <<Verdict, Chain>>)
<1>1. CASE WindowOpens \/ WindowCloses \/ UNCHANGED vars
  <2>1. UNCHANGED <<rows, inForce, status, proc>>
    BY <1>1 DEF WindowOpens, WindowCloses, vars, tables, history
  <2>2. QED
    BY <2>1, SameTables, UndecidedStep
<1>2. ASSUME NEW p \in Proposals, SaveProposal(p)
      PROVE  DecideInv' /\ Decisions!DecisionsNext
  BY <1>2, SaveProposalDecides DEF Decisions!DecisionsNext
<1>3. CASE StartRefresh
  BY <1>3, ProcFacts, UndecidedActions DEF StartRefresh
<1>4. ASSUME NEW q \in Procs, GetCurrent(q) \/ Install(q)
      PROVE  DecideInv' /\ (Decisions!DecisionsNext \/ UNCHANGED <<Verdict, Chain>>)
  <2>1. CASE SelectCurrent(q) \/ SeedBegin(q) \/ Install(q)
    BY <1>4, <2>1, UndecidedActions
  <2>2. CASE SeedCommit(q)
    BY <1>4, <2>2, SeedCommitDecides DEF Decisions!DecisionsNext
  <2>3. QED
    BY <1>4, <2>1, <2>2 DEF GetCurrent
<1>5. ASSUME NEW j \in Jobs, StartApply(j)
      PROVE  DecideInv' /\ UNCHANGED <<Verdict, Chain>>
  BY <1>5, ProcFacts, UndecidedActions DEF StartApply
<1>6. ASSUME NEW j \in Jobs, Apply(j)
      PROVE  DecideInv' /\ (Decisions!DecisionsNext \/ UNCHANGED <<Verdict, Chain>>)
  BY <1>6, UndecidedJobActions, SetCurrentDecides, MarkStatusDecides DEF Apply, Decisions!DecisionsNext
<1>7. ~Crash /\ \A q \in Procs : ~Fail(q)
  BY DEF OneJobNoFaults, Crash, Fail
<1>8. QED
  BY <1>1, <1>2, <1>3, <1>4, <1>5, <1>6, <1>7 DEF Next

(* A proposal is decided at most once, and comes into force at most once:   *)
(* the safety part of DecidedOnce, for any number of proposals.             *)
THEOREM EachDecidedOnce ==
  ASSUME OneJobNoFaults
  PROVE  Spec => Decisions!DecisionsSafety
<1>1. DecideInv /\ IInv /\ [Next]_vars =>
        DecideInv' /\ [Decisions!DecisionsNext]_<<Verdict, Chain>>
  BY DecideStep
<1>2. Init => DecideInv /\ Decisions!DecisionsInit
  BY InitDecide
<1>3. QED
  BY <1>1, <1>2, InvariantHolds, PTL DEF Spec, Decisions!DecisionsSafety, Verdict, Chain
=============================================================================
