-------------------------- MODULE EventPersistence --------------------------
(***************************************************************************)
(* The executor's write-behind queue for ex_order_event and ex_fill        *)
(* (event-repository.ts), with its periodic flushes, which may overlap     *)
(* when the database is slow, and the flush at shutdown.  Records are      *)
(* numbered per kind in the order in which they are queued.                *)
(***************************************************************************)
EXTENDS Naturals

CONSTANTS
  Flushes,      \* doFlush calls that may be in flight at once
  MaxRecords,   \* bound: records of each kind
  DbFails,      \* may an insert fail?
  LateErrors,   \* may an insert that fails have stored its rows?
  Stops         \* may the process be told to shut down?

ASSUME PersistenceAssumption ==
  /\ MaxRecords \in Nat
  /\ {DbFails, LateErrors, Stops} \subseteq BOOLEAN

VARIABLES
  count,    \* records queued so far, per kind
  queue,    \* orderEventQueue and fillQueue
  flush,    \* per call: the insert it awaits, and what it took from the queues
  stored,   \* external: rows of each record in the database, counted up to 2
  phase,    \* "running", the last flush of a process that stops, or "exited"
  lateError \* history: has an insert failed that had stored its rows?

persistenceVars == <<count, queue, flush, stored, phase, lateError>>

Kinds == {"order", "fill"}
Records == 1 .. MaxRecords
Nothing == [k \in Kinds |-> {}]
IdleFlush == [pc |-> "idle", batch |-> Nothing]

PersistenceInit ==
  /\ count = [k \in Kinds |-> 0]
  /\ queue = Nothing
  /\ flush = [f \in Flushes |-> IdleFlush]
  /\ stored = [k \in Kinds |-> [r \in Records |-> 0]]
  /\ phase = "running"
  /\ lateError = FALSE

(* queueOrderEvent and queueFill; the private stream is closed only after   *)
(* the last flush.                                                         *)
Queue(k) ==
  /\ phase # "exited"
  /\ count[k] < MaxRecords
  /\ count' = [count EXCEPT ![k] = @ + 1]
  /\ queue' = [queue EXCEPT ![k] = @ \cup {count'[k]}]
  /\ UNCHANGED <<flush, stored, phase, lateError>>

(* doFlush up to its first await: the queues change hands.                  *)
Take(f) ==
  /\ flush[f].pc = "idle"
  /\ IF queue = Nothing
     THEN UNCHANGED flush
     ELSE flush' = [flush EXCEPT ![f] =
            [pc |-> IF queue["order"] # {} THEN "order" ELSE "fill", batch |-> queue]]
  /\ queue' = Nothing

StartFlush(f) ==
  /\ phase = "running"
  /\ queue # Nothing
  /\ Take(f)
  /\ UNCHANGED <<count, stored, phase, lateError>>

Stop(f) ==
  /\ Stops
  /\ phase = "running"
  /\ Take(f)
  /\ phase' = f
  /\ UNCHANGED <<count, stored, lateError>>

(* stop() has returned; the process closes its connections and ends.        *)
Exit ==
  /\ phase \in Flushes
  /\ flush[phase].pc = "idle"
  /\ phase' = "exited"
  /\ UNCHANGED <<count, queue, flush, stored, lateError>>

Store(k, batch) ==
  stored' = [stored EXCEPT ![k] = [r \in Records |->
    IF r \in batch /\ @[r] < 2 THEN @[r] + 1 ELSE @[r]]]

(* Mutant: fills are inserted before order events.                         *)
InsertFillsFirst(f) ==
  LET k == IF flush[f].pc = "order" /\ flush[f].batch["fill"] # {} THEN "fill" ELSE "order"
  IN  /\ flush[f].pc \in Kinds
      /\ Store(k, flush[f].batch[k])
      /\ flush' = [flush EXCEPT ![f] =
           IF k = "fill" THEN [@ EXCEPT !.pc = "fill"] ELSE IdleFlush]
      /\ UNCHANGED <<count, queue, phase, lateError>>

(* An insert succeeds: order events first, then fills, each only when there *)
(* are any.                                                                *)
Insert(f) ==
  LET k == flush[f].pc
  IN  /\ k \in Kinds
      /\ Store(k, flush[f].batch[k])
      /\ flush' = [flush EXCEPT ![f] =
           IF k = "order" /\ @.batch["fill"] # {} THEN [@ EXCEPT !.pc = "fill"] ELSE IdleFlush]
      /\ UNCHANGED <<count, queue, phase, lateError>>

(* External: how an insert that fails leaves the database.                 *)
FailedInsert(f) ==
  /\ DbFails
  /\ flush[f].pc \in Kinds
  /\ \/ UNCHANGED <<stored, lateError>>
     \/ /\ LateErrors
        /\ Store(flush[f].pc, flush[f].batch[flush[f].pc])
        /\ lateError' = TRUE

(* Mutant: only the batch that failed is queued again.                     *)
FailKeepingOne(f) ==
  /\ FailedInsert(f)
  /\ queue' = [queue EXCEPT ![flush[f].pc] = @ \cup flush[f].batch[flush[f].pc]]
  /\ flush' = [flush EXCEPT ![f] = IdleFlush]
  /\ UNCHANGED <<count, phase>>

(* An insert fails: both batches are queued again, also order events that   *)
(* were stored already.                                                    *)
Fail(f) ==
  /\ FailedInsert(f)
  /\ queue' = [k \in Kinds |-> queue[k] \cup flush[f].batch[k]]
  /\ flush' = [flush EXCEPT ![f] = IdleFlush]
  /\ UNCHANGED <<count, phase>>

PersistenceNext ==
  \/ \E k \in Kinds : Queue(k)
  \/ \E f \in Flushes : StartFlush(f) \/ Stop(f) \/ Insert(f) \/ Fail(f)
  \/ Exit

PersistenceSpec == PersistenceInit /\ [][PersistenceNext]_persistenceVars

(* The flush timer fires, inserts are answered, and the inserts into one    *)
(* table do not fail for ever.                                             *)
PersistenceFairness ==
  /\ WF_persistenceVars(\E f \in Flushes : StartFlush(f))
  /\ \A f \in Flushes : WF_persistenceVars(Insert(f) \/ Fail(f))
  /\ \A k \in Kinds : SF_persistenceVars(\E f \in Flushes : flush[f].pc = k /\ Insert(f))

-----------------------------------------------------------------------------
(* A failed flush loses nothing, whatever was queued or flushed meanwhile;  *)
(* and a fill, once stored, is neither queued nor in flight, so that no fill *)
(* is enriched or counted twice: whatever flushes overlap or fail, only an  *)
(* error after the rows were stored can repeat it.  No INSERT is sent       *)
(* without rows (it would fail every later flush of the same batch).        *)
Durable == INSTANCE DurableQueue WITH
  Once <- {"fill"}, doubtful <- lateError,
  waiting <- [k \in Kinds |-> queue[k] \cup UNION {flush[f].batch[k] : f \in Flushes}]

ImplementsDurableQueue == Durable!QueueSpec

(* Every record reaches the database (4.4, 4.10) unless the process stops.  *)
EventuallyStored ==
  \A k \in Kinds : \A r \in Records :
    (r <= count[k]) ~> (stored[k][r] > 0 \/ phase # "running")
=============================================================================
