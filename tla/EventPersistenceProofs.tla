----------------------- MODULE EventPersistenceProofs -----------------------
(***************************************************************************)
(* Proof that the executor's write-behind queue implements DurableQueue,   *)
(* for any number of flushes in flight and of records, with inserts that    *)
(* fail in every way and a shutdown at any moment.                         *)
(***************************************************************************)
EXTENDS EventPersistence, TLAPS

Batches == [Kinds -> SUBSET Records]

TypeOK ==
  /\ count \in [Kinds -> 0 .. MaxRecords]
  /\ queue \in Batches
  /\ flush \in [Flushes -> [pc : {"idle"} \cup Kinds, batch : Batches]]
  /\ stored \in [Kinds -> [Records -> 0 .. 2]]
  /\ lateError \in BOOLEAN

(* A flush that awaits an insert has rows for it, and one that does not has *)
(* none at all; when fills are next, the order events are stored.           *)
FlushShape ==
  \A f \in Flushes :
    /\ flush[f].pc = "idle" => flush[f].batch = Nothing
    /\ flush[f].pc \in Kinds => flush[f].batch[flush[f].pc] # {}
    /\ flush[f].pc = "fill" => \A r \in flush[f].batch["order"] : stored["order"][r] > 0

(* Whatever is queued, taken or stored has a number that was given out.     *)
NumbersGiven ==
  \A k \in Kinds, r \in Records :
    (r \in queue[k] \/ stored[k][r] > 0 \/ \E f \in Flushes : r \in flush[f].batch[k])
      => r <= count[k]

(* A fill is in one place: the queue, or the batch of one flush.            *)
FillsInOnePlace ==
  \A f \in Flushes :
    /\ flush[f].batch["fill"] \cap queue["fill"] = {}
    /\ \A g \in Flushes \ {f} : flush[f].batch["fill"] \cap flush[g].batch["fill"] = {}

(* The inductive invariant.                                                *)
IInv == TypeOK /\ FlushShape /\ NumbersGiven /\ FillsInOnePlace

(* What waits, as the refinement mapping of ImplementsDurableQueue has it.  *)
Waiting == [k \in Kinds |-> queue[k] \cup UNION {flush[f].batch[k] : f \in Flushes}]

LEMMA InitIInv == PersistenceInit => IInv
<1> SUFFICES ASSUME PersistenceInit PROVE IInv
  OBVIOUS
<1>1. Nothing \in Batches /\ \A k \in Kinds : Nothing[k] = {}
  BY DEF Nothing, Batches
<1>2. TypeOK
  <2>1. count \in [Kinds -> 0 .. MaxRecords] /\ stored \in [Kinds -> [Records -> 0 .. 2]]
    BY PersistenceAssumption DEF PersistenceInit
  <2>2. queue \in Batches /\ flush \in [Flushes -> [pc : {"idle"} \cup Kinds, batch : Batches]]
    BY <1>1 DEF PersistenceInit, IdleFlush
  <2>3. QED
    BY <2>1, <2>2 DEF PersistenceInit, TypeOK
<1>3. \A f \in Flushes : flush[f].pc = "idle" /\ flush[f].batch = Nothing
  BY DEF PersistenceInit, IdleFlush
<1>4. FlushShape /\ FillsInOnePlace
  BY <1>1, <1>3 DEF FlushShape, FillsInOnePlace, Kinds
<1>5. NumbersGiven
  BY <1>1, <1>3 DEF PersistenceInit, NumbersGiven
<1>6. QED
  BY <1>2, <1>4, <1>5 DEF IInv

(* What waits is a set of records per kind, and waits somewhere.            *)
LEMMA WaitingFacts ==
  ASSUME TypeOK
  PROVE  /\ Waiting \in Batches
         /\ \A k \in Kinds, r \in Records :
              r \in Waiting[k] <=> (r \in queue[k] \/ \E f \in Flushes : r \in flush[f].batch[k])
BY DEF TypeOK, Waiting, Batches

(* Two batches with the same records of each kind are the same.             *)
LEMMA BatchesEqual ==
  ASSUME NEW a \in Batches, NEW b \in Batches,
         \A k \in Kinds, r \in Records : r \in a[k] <=> r \in b[k]
  PROVE  a = b
BY DEF Batches
-----------------------------------------------------------------------------
(* A record is queued: it waits from now on.                               *)
LEMMA QueueStep ==
  ASSUME IInv, NEW k \in Kinds, Queue(k)
  PROVE  IInv' /\ Durable!QueueNext
<1>0. PICK r \in Records : r = count[k] + 1
  BY PersistenceAssumption DEF Queue, IInv, TypeOK, Records
<1>1. /\ r <= MaxRecords
      /\ count' = [count EXCEPT ![k] = r]
      /\ queue' = [queue EXCEPT ![k] = @ \cup {r}]
      /\ UNCHANGED <<flush, stored, phase, lateError>>
  BY <1>0, PersistenceAssumption DEF Queue, IInv, TypeOK, Records
<1>2. /\ r \notin queue[k] /\ stored[k][r] = 0
      /\ \A f \in Flushes : r \notin flush[f].batch[k]
  BY <1>0, <1>1, PersistenceAssumption DEF IInv, NumbersGiven, TypeOK, Records
<1>3. TypeOK'
  BY <1>1 DEF IInv, TypeOK, Batches, Records
<1>4. FlushShape' /\ FillsInOnePlace'
  BY <1>1, <1>2 DEF IInv, TypeOK, FlushShape, FillsInOnePlace, Batches
<1>5. NumbersGiven'
  BY <1>0, <1>1 DEF IInv, TypeOK, NumbersGiven, Batches, Records
<1>6. r \notin Waiting[k]
  BY <1>1, <1>2, WaitingFacts DEF IInv
<1>7. Waiting' = [Waiting EXCEPT ![k] = @ \cup {r}]
  <2>1. Waiting \in Batches /\ Waiting' \in Batches
    BY <1>3, WaitingFacts DEF IInv, TypeOK, Waiting, Batches
  <2>2. [Waiting EXCEPT ![k] = @ \cup {r}] \in Batches
    BY <2>1, <1>1 DEF Batches
  <2>3. ASSUME NEW kind \in Kinds, NEW s \in Records
        PROVE  s \in Waiting'[kind] <=> s \in [Waiting EXCEPT ![k] = @ \cup {r}][kind]
    BY <1>1, <2>1 DEF Waiting, IInv, TypeOK, Batches
  <2>4. QED
    BY <2>1, <2>2, <2>3, BatchesEqual
<1>8. Durable!Accept(k, r)
  BY <1>1, <1>2, <1>6, <1>7 DEF Durable!Accept, Waiting
<1>9. Durable!QueueNext
  BY <1>1, <1>8 DEF Durable!QueueNext
<1>10. QED
  BY <1>3, <1>4, <1>5, <1>9 DEF IInv
(* The queues change hands: what waits is the same.                        *)
LEMMA TakeStep ==
  ASSUME IInv, NEW f \in Flushes, Take(f), UNCHANGED <<count, stored, lateError>>
  PROVE  IInv' /\ Waiting' = Waiting
<1>1. Nothing \in Batches /\ \A k \in Kinds : Nothing[k] = {}
  BY DEF Nothing, Batches
<1>2. queue \in Batches /\ flush[f].pc = "idle" /\ flush[f].batch = Nothing /\ queue' = Nothing
  BY DEF IInv, TypeOK, FlushShape, Take
<1>3. CASE queue = Nothing
  <2>1. UNCHANGED <<count, queue, flush, stored, lateError>>
    BY <1>2, <1>3 DEF Take
  <2>2. QED
    BY <2>1 DEF IInv, TypeOK, FlushShape, NumbersGiven, FillsInOnePlace, Waiting
<1>4. CASE queue # Nothing
  <2> DEFINE pc == IF queue["order"] # {} THEN "order" ELSE "fill"
  <2>1. flush' = [flush EXCEPT ![f] = [pc |-> pc, batch |-> queue]]
    BY <1>4 DEF Take
  <2>2. pc \in Kinds /\ queue[pc] # {}
    <3>1. queue["order"] # {} \/ queue["fill"] # {}
      BY <1>1, <1>2, <1>4 DEF Batches, Kinds
    <3>2. QED
      BY <3>1 DEF Kinds
  <2>3. pc = "fill" => queue["order"] = {}
    OBVIOUS
  <2> HIDE DEF pc
  <2>4. /\ flush'[f].pc = pc /\ flush'[f].batch = queue
        /\ \A g \in Flushes \ {f} : flush'[g] = flush[g]
    BY <2>1 DEF IInv, TypeOK
  <2>5. TypeOK'
    BY <1>1, <1>2, <2>1, <2>2 DEF IInv, TypeOK
  <2>6. FlushShape'
    BY <2>2, <2>3, <2>4 DEF IInv, FlushShape, Kinds
  <2>7. NumbersGiven'
    BY <1>1, <1>2, <2>4 DEF IInv, NumbersGiven
  <2>8. FillsInOnePlace'
    BY <1>1, <1>2, <2>4 DEF IInv, FillsInOnePlace, Kinds
  <2>9. Waiting' = Waiting
    <3>1. Waiting \in Batches /\ Waiting' \in Batches
      BY <2>5, WaitingFacts DEF IInv, TypeOK, Waiting, Batches
    <3>2. ASSUME NEW k \in Kinds, NEW r \in Records
          PROVE  r \in Waiting'[k] <=> r \in Waiting[k]
      BY <1>1, <1>2, <2>4 DEF Waiting
    <3>3. QED
      BY <3>1, <3>2, BatchesEqual
  <2>10. QED
    BY <2>5, <2>6, <2>7, <2>8, <2>9 DEF IInv
<1>5. QED
  BY <1>3, <1>4

(* What storing a batch of one kind does to the rows.                      *)
LEMMA StoreFacts ==
  ASSUME TypeOK, NEW k \in Kinds, NEW batch \in SUBSET Records, Store(k, batch)
  PROVE  /\ stored' \in [Kinds -> [Records -> 0 .. 2]]
         /\ \A r \in batch : stored'[k][r] > 0
         /\ \A kind \in Kinds, r \in Records :
              /\ stored[kind][r] > 0 => stored'[kind][r] > 0
              /\ stored'[kind][r] > 0 => stored[kind][r] > 0 \/ (kind = k /\ r \in batch)
<1> DEFINE Rows == [r \in Records |->
             IF r \in batch /\ stored[k][r] < 2 THEN stored[k][r] + 1 ELSE stored[k][r]]
<1>1. stored' = [stored EXCEPT ![k] = Rows]
  BY DEF Store
<1>2. \A r \in Records : stored[k][r] \in 0 .. 2
  BY DEF TypeOK
<1>3. Rows \in [Records -> 0 .. 2]
  BY <1>2
<1>4. \A r \in Records :
        /\ r \in batch => Rows[r] > 0
        /\ stored[k][r] > 0 => Rows[r] > 0
        /\ Rows[r] > 0 => stored[k][r] > 0 \/ r \in batch
  BY <1>2
<1> HIDE DEF Rows
<1>5. stored' \in [Kinds -> [Records -> 0 .. 2]]
  BY <1>1, <1>3 DEF TypeOK
<1>6. stored'[k] = Rows /\ \A kind \in Kinds \ {k} : stored'[kind] = stored[kind]
  BY <1>1 DEF TypeOK
<1>7. QED
  BY <1>4, <1>5, <1>6

(* An insert succeeds: its rows are stored, and what stops waiting then is  *)
(* stored.  Fills are inserted last, so the order events of their batch are *)
(* stored by then.                                                         *)
LEMMA InsertStep ==
  ASSUME IInv, NEW f \in Flushes, Insert(f)
  PROVE  IInv' /\ Durable!QueueNext
<1>0. flush[f].pc \in Kinds /\ flush[f].batch \in Batches /\ flush[f].batch[flush[f].pc] \in SUBSET Records
  BY DEF Insert, IInv, TypeOK, Batches
<1>1. PICK k \in Kinds, rows \in SUBSET Records : k = flush[f].pc /\ rows = flush[f].batch[k]
  BY <1>0
<1>2. rows # {} /\ rows \subseteq Waiting[k]
  BY <1>1, WaitingFacts DEF IInv, FlushShape
<1>3. Store(k, rows) /\ UNCHANGED <<count, queue, phase, lateError>>
  BY <1>1 DEF Insert
<1>4. /\ stored' \in [Kinds -> [Records -> 0 .. 2]]
      /\ \A r \in rows : stored'[k][r] > 0
      /\ \A kind \in Kinds, r \in Records :
           /\ stored[kind][r] > 0 => stored'[kind][r] > 0
           /\ stored'[kind][r] > 0 => stored[kind][r] > 0 \/ (kind = k /\ r \in rows)
  BY <1>3, StoreFacts DEF IInv
<1>5. Nothing \in Batches /\ \A kind \in Kinds : Nothing[kind] = {}
  BY DEF Nothing, Batches
<1>6. /\ flush' \in [Flushes -> [pc : {"idle"} \cup Kinds, batch : Batches]]
      /\ \A g \in Flushes \ {f} : flush'[g] = flush[g]
      /\ \/ /\ k = "order" /\ flush[f].batch["fill"] # {}
            /\ flush'[f].pc = "fill" /\ flush'[f].batch = flush[f].batch
         \/ /\ k = "fill" \/ flush[f].batch["fill"] = {}
            /\ flush'[f].pc = "idle" /\ flush'[f].batch = Nothing
  <2> DEFINE next == IF k = "order" /\ flush[f].batch["fill"] # {}
                     THEN [flush[f] EXCEPT !.pc = "fill"] ELSE IdleFlush
  <2>1. flush' = [flush EXCEPT ![f] = next]
    BY <1>1 DEF Insert
  <2>2. /\ next \in [pc : {"idle"} \cup Kinds, batch : Batches]
        /\ \/ /\ k = "order" /\ flush[f].batch["fill"] # {}
              /\ next.pc = "fill" /\ next.batch = flush[f].batch
           \/ /\ k = "fill" \/ flush[f].batch["fill"] = {}
              /\ next.pc = "idle" /\ next.batch = Nothing
    BY <1>5 DEF IInv, TypeOK, IdleFlush, Kinds
  <2> HIDE DEF next
  <2>3. QED
    BY <2>1, <2>2 DEF IInv, TypeOK
<1>7. TypeOK'
  BY <1>3, <1>4, <1>6 DEF IInv, TypeOK
<1>8. FlushShape'
  <2> SUFFICES ASSUME NEW g \in Flushes
               PROVE  /\ flush'[g].pc = "idle" => flush'[g].batch = Nothing
                      /\ flush'[g].pc \in Kinds => flush'[g].batch[flush'[g].pc] # {}
                      /\ flush'[g].pc = "fill" => \A r \in flush'[g].batch["order"] : stored'["order"][r] > 0
    BY DEF FlushShape, Nothing
  <2>1. CASE g # f
    <3>1. \A r \in flush[g].batch["order"] : r \in Records
      BY DEF IInv, TypeOK, Batches, Kinds
    <3>2. QED
      BY <1>4, <1>6, <2>1, <3>1 DEF IInv, FlushShape, Kinds
  <2>2. CASE g = f
    BY <1>1, <1>4, <1>6, <2>2 DEF Kinds
  <2>3. QED
    BY <2>1, <2>2
<1>9. \A kind \in Kinds, g \in Flushes : flush'[g].batch[kind] \subseteq flush[g].batch[kind]
  BY <1>5, <1>6
<1>10. NumbersGiven'
  BY <1>1, <1>3, <1>4, <1>9 DEF IInv, NumbersGiven
<1>11. FillsInOnePlace'
  BY <1>3, <1>9 DEF IInv, FillsInOnePlace, Kinds
<1>12. Waiting' \in Batches /\ Waiting \in Batches
  BY <1>7, WaitingFacts DEF IInv, TypeOK, Waiting, Batches
<1>13. \A kind \in Kinds, r \in Records :
         r \in Waiting'[kind] <=> (r \in queue[kind] \/ \E g \in Flushes : r \in flush'[g].batch[kind])
  BY <1>3, <1>7 DEF TypeOK, Waiting, Batches
<1>14. \A kind \in Kinds, r \in Records :
         r \in Waiting[kind] <=> (r \in queue[kind] \/ \E g \in Flushes : r \in flush[g].batch[kind])
  BY WaitingFacts DEF IInv
<1>15. \A kind \in Kinds :
         /\ Waiting'[kind] \subseteq Waiting[kind]
         /\ \A r \in Waiting[kind] \ Waiting'[kind] : stored'[kind][r] > 0
  <2> SUFFICES ASSUME NEW kind \in Kinds, NEW r \in Records
               PROVE  /\ r \in Waiting'[kind] => r \in Waiting[kind]
                      /\ r \in Waiting[kind] /\ r \notin Waiting'[kind] => stored'[kind][r] > 0
    BY <1>12 DEF Batches
  <2>1. r \in Waiting'[kind] => r \in Waiting[kind]
    BY <1>9, <1>13, <1>14
  <2>2. ASSUME r \in Waiting[kind], r \notin Waiting'[kind]
        PROVE  stored'[kind][r] > 0
    <3>1. r \in flush[f].batch[kind] /\ flush'[f].batch # flush[f].batch
      BY <1>6, <1>13, <1>14, <2>2
    <3>2. k = "fill" \/ flush[f].batch["fill"] = {}
      BY <1>6, <3>1
    <3>3. CASE kind = k
      BY <1>1, <1>4, <3>1, <3>3
    <3>4. CASE kind # k
      BY <1>1, <1>4, <3>1, <3>2, <3>4 DEF Kinds, IInv, FlushShape
    <3>5. QED
      BY <3>3, <3>4
  <2>3. QED
    BY <2>1, <2>2
<1>16. k = "fill" => Waiting'[k] = Waiting[k] \ rows
  <2> SUFFICES ASSUME k = "fill", NEW r \in Records
               PROVE  r \in Waiting'[k] <=> (r \in Waiting[k] /\ r \notin rows)
    BY <1>12 DEF Batches
  <2>1. flush'[f].batch[k] = {}
    BY <1>5, <1>6
  <2>2. r \in rows => r \notin queue[k] /\ \A g \in Flushes \ {f} : r \notin flush[g].batch[k]
    BY <1>1 DEF IInv, FillsInOnePlace
  <2>3. QED
    BY <1>1, <1>6, <1>13, <1>14, <2>1, <2>2
<1>17. Durable!Commit(k, rows)
  BY <1>2, <1>3, <1>12, <1>15, <1>16 DEF Durable!Commit, Durable!StoreRows, Store, Waiting, Batches
<1>18. Durable!QueueNext
  <2>1. rows \in SUBSET Waiting[k]
    BY <1>2
  <2>2. QED
    BY <1>17, <2>1 DEF Durable!QueueNext, Waiting
<1>19. QED
  BY <1>7, <1>8, <1>10, <1>11, <1>18 DEF IInv

(* An insert fails: its batches wait in the queue again.  If its rows were  *)
(* stored all the same, then this is the insert whose outcome is in doubt.  *)
LEMMA FailStep ==
  ASSUME IInv, NEW f \in Flushes, Fail(f)
  PROVE  IInv' /\ (Durable!QueueNext \/ UNCHANGED <<Waiting, stored, lateError>>)
<1>0. flush[f].pc \in Kinds /\ flush[f].batch \in Batches /\ flush[f].batch[flush[f].pc] \in SUBSET Records
  BY DEF Fail, FailedInsert, IInv, TypeOK, Batches
<1>1. PICK k \in Kinds, rows \in SUBSET Records : k = flush[f].pc /\ rows = flush[f].batch[k]
  BY <1>0
<1>2. rows # {} /\ rows \subseteq Waiting[k]
  BY <1>1, WaitingFacts DEF IInv, FlushShape
<1>3. /\ UNCHANGED count
      /\ queue' = [kind \in Kinds |-> queue[kind] \cup flush[f].batch[kind]]
      /\ flush' = [flush EXCEPT ![f] = IdleFlush]
      /\ \/ UNCHANGED <<stored, lateError>>
         \/ Store(k, rows) /\ lateError' = TRUE
  BY <1>1 DEF Fail, FailedInsert
<1>4. /\ stored' \in [Kinds -> [Records -> 0 .. 2]]
      /\ \A kind \in Kinds, r \in Records :
           /\ stored[kind][r] > 0 => stored'[kind][r] > 0
           /\ stored'[kind][r] > 0 => stored[kind][r] > 0 \/ (kind = k /\ r \in rows)
  BY <1>3, StoreFacts DEF IInv, TypeOK
<1>5. Nothing \in Batches /\ \A kind \in Kinds : Nothing[kind] = {}
  BY DEF Nothing, Batches
<1>6. /\ flush'[f].pc = "idle" /\ flush'[f].batch = Nothing
      /\ \A g \in Flushes \ {f} : flush'[g] = flush[g]
      /\ \A kind \in Kinds : queue'[kind] = queue[kind] \cup flush[f].batch[kind]
  BY <1>3 DEF IInv, TypeOK, IdleFlush
<1>7. TypeOK'
  <2>1. queue' \in Batches
    BY <1>0, <1>3 DEF IInv, TypeOK, Batches
  <2>2. flush' \in [Flushes -> [pc : {"idle"} \cup Kinds, batch : Batches]]
    BY <1>3, <1>5 DEF IInv, TypeOK, IdleFlush
  <2>3. QED
    BY <1>3, <1>4, <2>1, <2>2 DEF IInv, TypeOK
<1>8. FlushShape'
  <2> SUFFICES ASSUME NEW g \in Flushes
               PROVE  /\ flush'[g].pc = "idle" => flush'[g].batch = Nothing
                      /\ flush'[g].pc \in Kinds => flush'[g].batch[flush'[g].pc] # {}
                      /\ flush'[g].pc = "fill" => \A r \in flush'[g].batch["order"] : stored'["order"][r] > 0
    BY DEF FlushShape, Nothing
  <2>1. CASE g # f
    <3>1. \A r \in flush[g].batch["order"] : r \in Records
      BY DEF IInv, TypeOK, Batches, Kinds
    <3>2. QED
      BY <1>4, <1>6, <2>1, <3>1 DEF IInv, FlushShape, Kinds
  <2>2. CASE g = f
    BY <1>6, <2>2 DEF Kinds
  <2>3. QED
    BY <2>1, <2>2
<1>9. NumbersGiven'
  <2> SUFFICES ASSUME NEW kind \in Kinds, NEW r \in Records,
                      r \in queue'[kind] \/ stored'[kind][r] > 0 \/ \E g \in Flushes : r \in flush'[g].batch[kind]
               PROVE  r <= count'[kind]
    BY DEF NumbersGiven
  <2>1. r \in queue[kind] \/ stored[kind][r] > 0 \/ \E g \in Flushes : r \in flush[g].batch[kind]
    BY <1>1, <1>4, <1>5, <1>6
  <2>2. QED
    BY <1>3, <2>1 DEF IInv, NumbersGiven
<1>10. FillsInOnePlace'
  BY <1>5, <1>6 DEF IInv, FillsInOnePlace, Kinds
<1>11. Waiting' = Waiting
  <2>1. Waiting \in Batches /\ Waiting' \in Batches
    BY <1>7, WaitingFacts DEF IInv, TypeOK, Waiting, Batches
  <2>2. ASSUME NEW kind \in Kinds, NEW r \in Records
        PROVE  r \in Waiting'[kind] <=> r \in Waiting[kind]
    BY <1>5, <1>6 DEF Waiting
  <2>3. QED
    BY <2>1, <2>2, BatchesEqual
<1>12. CASE UNCHANGED <<stored, lateError>>
  BY <1>7, <1>8, <1>9, <1>10, <1>11, <1>12 DEF IInv
<1>13. CASE Store(k, rows) /\ lateError' = TRUE
  <2>1. Durable!InDoubt(k, rows)
    BY <1>2, <1>11, <1>13 DEF Durable!InDoubt, Durable!StoreRows, Store, Waiting
  <2>2. rows \in SUBSET Waiting[k]
    BY <1>2
  <2>3. Durable!QueueNext
    BY <2>1, <2>2 DEF Durable!QueueNext, Waiting
  <2>4. QED
    BY <1>7, <1>8, <1>9, <1>10, <2>3 DEF IInv
<1>14. QED
  BY <1>3, <1>12, <1>13
-----------------------------------------------------------------------------
(* Every step keeps the invariant, and is a step of the abstract queue.     *)
LEMMA StepFacts ==
  IInv /\ [PersistenceNext]_persistenceVars => IInv' /\ [Durable!QueueNext]_(Durable!queueVars)
<1> SUFFICES ASSUME IInv, [PersistenceNext]_persistenceVars
             PROVE  IInv' /\ (Durable!QueueNext \/ UNCHANGED <<Waiting, stored, lateError>>)
  BY DEF Durable!queueVars, Waiting
<1>1. ASSUME NEW k \in Kinds, Queue(k)
      PROVE  IInv' /\ Durable!QueueNext
  BY <1>1, QueueStep
<1>2. ASSUME NEW f \in Flushes, StartFlush(f) \/ Stop(f)
      PROVE  IInv' /\ UNCHANGED <<Waiting, stored, lateError>>
  <2>1. Take(f) /\ UNCHANGED <<count, stored, lateError>>
    BY <1>2 DEF StartFlush, Stop
  <2>2. QED
    BY <2>1, TakeStep
<1>3. ASSUME NEW f \in Flushes, Insert(f)
      PROVE  IInv' /\ Durable!QueueNext
  BY <1>3, InsertStep
<1>4. ASSUME NEW f \in Flushes, Fail(f)
      PROVE  IInv' /\ (Durable!QueueNext \/ UNCHANGED <<Waiting, stored, lateError>>)
  BY <1>4, FailStep
<1>5. ASSUME Exit \/ UNCHANGED persistenceVars
      PROVE  IInv' /\ UNCHANGED <<Waiting, stored, lateError>>
  <2>1. UNCHANGED <<count, queue, flush, stored, lateError>>
    BY <1>5 DEF Exit, persistenceVars
  <2>2. QED
    BY <2>1 DEF IInv, TypeOK, FlushShape, NumbersGiven, FillsInOnePlace, Waiting
<1>6. QED
  BY <1>1, <1>2, <1>3, <1>4, <1>5 DEF PersistenceNext

(* A failed flush loses nothing and repeats no fill: for any number of      *)
(* flushes in flight, whatever fails and whenever the process stops, the    *)
(* queues and batches are a queue that keeps its promise.                   *)
THEOREM QueueIsDurable == PersistenceSpec => ImplementsDurableQueue
<1>1. PersistenceInit => IInv
  BY InitIInv
<1>2. PersistenceInit => Durable!QueueInit
  <2> SUFFICES ASSUME PersistenceInit
               PROVE  Durable!QueueInit
    OBVIOUS
  <2>1. Nothing \in Batches /\ \A k \in Kinds : Nothing[k] = {}
    BY DEF Nothing, Batches
  <2>2. \A k \in Kinds : queue[k] = {} /\ \A f \in Flushes : flush[f].batch[k] = {}
    BY <2>1 DEF PersistenceInit, IdleFlush
  <2>3. Waiting = [k \in Kinds |-> {}]
    BY <2>2 DEF Waiting
  <2>4. QED
    BY <2>3 DEF PersistenceInit, Durable!QueueInit, Waiting
<1>3. QED
  BY <1>1, <1>2, StepFacts, PTL DEF PersistenceSpec, ImplementsDurableQueue, Durable!QueueSpec
=============================================================================
