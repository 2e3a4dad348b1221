--------------------------- MODULE IngestorProofs ---------------------------
(***************************************************************************)
(* Proofs about the three parts of the ingestor, each for itself: what     *)
(* becomes of the rows and of the latest state, for any number of events,  *)
(* prices and upserts; the best bid and offer of the order book, for any   *)
(* prices and any number of levels; and the listeners of the connection,   *)
(* for any number of streams, loops and faults.                            *)
(***************************************************************************)
EXTENDS MarketDataConnection, OrderBookFeed, MarketDataRecorder, FiniteSetTheorems, SequenceTheorems,
        WellFoundedInduction, TLAPS

-----------------------------------------------------------------------------
(* The recorder: type correctness                                          *)

RecorderType ==
  /\ events \in Nat /\ events <= MaxEvents
  /\ buffer \in [Tables -> Seq(Nat)]
  /\ flying \in [Tables -> Nat]
  /\ handed \in SUBSET (1 .. events)
  /\ dead \in SUBSET handed
  /\ stored \in [Rows -> Nat]
  /\ lateError \in BOOLEAN
  /\ sliced \in Nat /\ sliced <= events
  /\ phase \in {"run", "writer", "latest", "closed"}

(* The rows of a buffer are those of different events in the order of the   *)
(* events, and no event has rows in two buffers; the insert under way has   *)
(* a prefix of the buffer, and behind it is what came after the flush.     *)
InOrder(t) ==
  /\ flying[t] <= Len(buffer[t])
  /\ \A i \in DOMAIN buffer[t] :
       /\ buffer[t][i] \in handed
       /\ i > flying[t] => buffer[t][i] > sliced
       /\ \A k \in DOMAIN buffer[t] : i < k => buffer[t][i] < buffer[t][k]
       /\ \A u \in Tables : \A k \in DOMAIN buffer[u] : buffer[u][k] = buffer[t][i] => u = t

RowsOrdered ==
  /\ \A t \in Tables : InOrder(t)
  /\ phase \in {"latest", "closed"} => \A t \in Tables : flying[t] = 0

(* Nothing is stored that was not handed over; a dead row no longer waits,  *)
(* and without a late error it was not stored, nor was one that waits.     *)
RowsOnce ==
  /\ \A n \in handed : Waiting(n) \/ stored[n] > 0 \/ n \in dead
  /\ \A n \in Rows \ handed : stored[n] = 0
  /\ \A n \in dead : ~Waiting(n)
  /\ ~lateError => \A n \in handed :
       /\ stored[n] <= 1
       /\ Waiting(n) \/ n \in dead => stored[n] = 0

RecorderInv == RecorderType /\ RowsOrdered /\ RowsOnce

(* Unless they raced, one upsert at most is under way, it carries the       *)
(* latest state, and the state stays dirty until it has ended.             *)
LatestInv ==
  /\ latest \in Nat /\ topRow \in Nat
  /\ upserts \in [1 .. MaxUpserts -> Nat]
  /\ dirty \in BOOLEAN /\ raced \in BOOLEAN
  /\ raced = FALSE =>
       /\ \A i \in 1 .. MaxUpserts : upserts[i] # 0 =>
            /\ upserts[i] = latest /\ dirty = TRUE
            /\ \A k \in 1 .. MaxUpserts : upserts[k] # 0 => k = i
       /\ dirty = FALSE => topRow = latest

-----------------------------------------------------------------------------
(* The recorder: how an operation changes what waits                       *)

LEMMA WaitingIn ==
  ASSUME NEW n
  PROVE  Waiting(n) <=> \E t \in Tables : \E i \in DOMAIN buffer[t] : buffer[t][i] = n
BY DEF Waiting, ToSet

(* The slice of an insert is the prefix of the buffer it was taken from.   *)
LEMMA SliceIsPrefix ==
  ASSUME RecorderType, NEW t \in Tables, InOrder(t)
  PROVE  Slice(t) = {buffer[t][i] : i \in 1 .. flying[t]}
<1> DEFINE b == buffer[t]
           f == flying[t]
<1>1. b \in Seq(Nat) /\ f \in Nat /\ f <= Len(b)
  BY DEF RecorderType, InOrder
<1>2. SubSeq(b, 1, f) = [i \in 1 .. f |-> b[i]]
  BY <1>1, SubSeqProperties
<1>3. QED
  BY <1>2 DEF Slice, ToSet

(* A row that is added waits behind the others. *)
LEMMA AddedRowWaits ==
  ASSUME RecorderInv, NEW t \in Tables, NEW n \in Nat, AddRow(t, n)
  PROVE  /\ buffer' \in [Tables -> Seq(Nat)]
         /\ DOMAIN buffer'[t] = 1 .. Len(buffer[t]) + 1
         /\ \A i \in DOMAIN buffer[t] : buffer'[t][i] = buffer[t][i]
         /\ buffer'[t][Len(buffer[t]) + 1] = n
         /\ \A u \in Tables : u # t => buffer'[u] = buffer[u]
         /\ \A m : Waiting(m)' <=> Waiting(m) \/ m = n
<1>1. buffer \in [Tables -> Seq(Nat)] /\ buffer' = [buffer EXCEPT ![t] = Append(buffer[t], n)]
  BY DEF AddRow, RecorderInv, RecorderType
<1>2. buffer[t] \in Seq(Nat) /\ buffer'[t] = Append(buffer[t], n)
      /\ \A u \in Tables : u # t => buffer'[u] = buffer[u]
  BY <1>1
<1>3. /\ Append(buffer[t], n) \in Seq(Nat)
      /\ DOMAIN Append(buffer[t], n) = 1 .. Len(buffer[t]) + 1
      /\ \A i \in DOMAIN buffer[t] : Append(buffer[t], n)[i] = buffer[t][i]
      /\ Append(buffer[t], n)[Len(buffer[t]) + 1] = n
      /\ DOMAIN buffer[t] = 1 .. Len(buffer[t]) /\ Len(buffer[t]) \in Nat
  BY <1>2
<1>4. ASSUME NEW m PROVE Waiting(m)' <=> Waiting(m) \/ m = n
  <2>1. ToSet(buffer'[t]) = ToSet(buffer[t]) \cup {n}
    BY <1>2, <1>3 DEF ToSet
  <2>2. \A u \in Tables : u # t => ToSet(buffer'[u]) = ToSet(buffer[u])
    BY <1>2
  <2>3. QED
    BY <2>1, <2>2 DEF Waiting
<1>5. QED
  BY <1>1, <1>2, <1>3, <1>4

(* The rows of a settled insert wait no longer, the others still do. *)
LEMMA SettledRowsLeave ==
  ASSUME RecorderInv, NEW t \in Tables, Settled(t)
  PROVE  /\ buffer' \in [Tables -> Seq(Nat)] /\ flying' \in [Tables -> Nat]
         /\ flying'[t] = 0 /\ DOMAIN buffer'[t] = 1 .. Len(buffer[t]) - flying[t]
         /\ \A i \in DOMAIN buffer'[t] :
              /\ i + flying[t] \in DOMAIN buffer[t]
              /\ buffer'[t][i] = buffer[t][i + flying[t]]
         /\ \A u \in Tables : u # t => buffer'[u] = buffer[u] /\ flying'[u] = flying[u]
         /\ \A m : Waiting(m)' <=> Waiting(m) /\ m \notin Slice(t)
<1> DEFINE b == buffer[t]
           f == flying[t]
<1>1. /\ buffer \in [Tables -> Seq(Nat)] /\ flying \in [Tables -> Nat]
      /\ buffer' = [buffer EXCEPT ![t] = Remaining(t)] /\ flying' = [flying EXCEPT ![t] = 0]
      /\ InOrder(t)
  BY DEF Settled, RecorderInv, RecorderType, RowsOrdered
<1>2. b \in Seq(Nat) /\ f \in Nat /\ f <= Len(b) /\ Len(b) \in Nat /\ DOMAIN b = 1 .. Len(b)
  BY <1>1 DEF InOrder
<1>3. /\ Remaining(t) \in Seq(Nat)
      /\ Remaining(t) = [i \in 1 .. Len(b) - f |-> b[i + f]]
  <2> DEFINE r == SubSeq(b, f + 1, Len(b))
  <2>1. \A i \in f + 1 .. Len(b) : b[i] \in Nat
    BY <1>2
  <2>2. f + 1 \in Int /\ Len(b) \in Int
    BY <1>2
  <2>3. /\ r \in Seq(Nat)
        /\ Len(r) = IF f + 1 <= Len(b) THEN Len(b) - (f + 1) + 1 ELSE 0
        /\ \A i \in 1 .. Len(b) - (f + 1) + 1 : r[i] = b[f + 1 + i - 1]
    BY <2>1, <2>2, SubSeqProperties
  <2> HIDE DEF r
  <2>4. Len(r) = Len(b) - f /\ 1 .. Len(b) - (f + 1) + 1 = 1 .. Len(b) - f
    <3>1. Len(b) - (f + 1) + 1 = Len(b) - f /\ (f + 1 <= Len(b) \/ Len(b) - f = 0)
      BY <1>2
    <3>2. QED
      BY <2>3, <3>1
  <2>5. \A i \in 1 .. Len(b) - f : r[i] = b[i + f]
    <3>1. \A i \in 1 .. Len(b) - f : f + 1 + i - 1 = i + f
      BY <1>2
    <3>2. QED
      BY <2>3, <2>4, <3>1
  <2>6. r = [i \in 1 .. Len(b) - f |-> r[i]]
    BY <2>3, <2>4, LenProperties
  <2>7. Remaining(t) = r
    BY DEF Remaining, r
  <2>8. QED
    BY <2>3, <2>5, <2>6, <2>7
<1>4. /\ buffer'[t] = Remaining(t) /\ flying'[t] = 0
      /\ buffer' \in [Tables -> Seq(Nat)] /\ flying' \in [Tables -> Nat]
      /\ \A u \in Tables : u # t => buffer'[u] = buffer[u] /\ flying'[u] = flying[u]
  BY <1>1, <1>3
<1>5. \A i \in 1 .. Len(b) - f : i + f \in 1 .. Len(b)
  BY <1>2
<1>6. ASSUME NEW m PROVE Waiting(m)' <=> Waiting(m) /\ m \notin Slice(t)
  <2>1. Slice(t) = {b[i] : i \in 1 .. f}
    BY <1>1, SliceIsPrefix DEF RecorderInv
  <2>2. ToSet(buffer'[t]) = {b[i] : i \in f + 1 .. Len(b)}
    <3>1. ToSet(buffer'[t]) = {b[i + f] : i \in 1 .. Len(b) - f}
      <4>1. buffer'[t] = [i \in 1 .. Len(b) - f |-> b[i + f]]
        BY <1>3, <1>4
      <4>2. QED
        BY <4>1 DEF ToSet
    <3>2. \A i \in f + 1 .. Len(b) : i - f \in 1 .. Len(b) - f /\ (i - f) + f = i
      BY <1>2
    <3>3. \A i \in 1 .. Len(b) - f : i + f \in f + 1 .. Len(b)
      BY <1>2
    <3>4. QED
      BY <3>1, <3>2, <3>3
  <2>3. ASSUME NEW i \in 1 .. f, NEW k \in f + 1 .. Len(b) PROVE b[i] # b[k]
    <3>1. i \in DOMAIN b /\ k \in DOMAIN b /\ i < k /\ b[i] \in Nat /\ b[k] \in Nat
      BY <1>2
    <3>2. QED
      BY <1>1, <3>1 DEF InOrder
  <2>4. ASSUME NEW u \in Tables, u # t, NEW i \in 1 .. f PROVE b[i] \notin ToSet(buffer[u])
    <3>1. i \in DOMAIN b
      BY <1>2
    <3>2. QED
      BY <1>1, <2>4, <3>1 DEF InOrder, ToSet
  <2>5. m \in ToSet(buffer'[t]) <=> m \in ToSet(b) /\ m \notin Slice(t)
    <3>1. ToSet(b) = {b[i] : i \in 1 .. Len(b)}
      BY <1>2 DEF ToSet
    <3>2. 1 .. Len(b) = (1 .. f) \cup (f + 1 .. Len(b))
      BY <1>2
    <3>3. QED
      BY <2>1, <2>2, <2>3, <3>1, <3>2
  <2>6. \A u \in Tables : u # t => (m \in ToSet(buffer'[u]) <=> m \in ToSet(buffer[u]) /\ m \notin Slice(t))
    BY <1>4, <2>1, <2>4
  <2>7. QED
    BY <2>5, <2>6 DEF Waiting
<1>7. DOMAIN buffer'[t] = 1 .. Len(b) - f /\ \A i \in 1 .. Len(b) - f : buffer'[t][i] = b[i + f]
  BY <1>3, <1>4
<1>8. QED
  BY <1>2, <1>4, <1>5, <1>6, <1>7

-----------------------------------------------------------------------------
(* The recorder: every operation keeps the invariant                       *)

LEMMA EventStep ==
  ASSUME RecorderInv, events' = events + 1, events' <= MaxEvents, NEW t \in Tables,
         AddRow(t, events + 1), UNCHANGED <<flying, dead, stored, lateError, sliced, phase>>
  PROVE  RecorderInv'
<1> DEFINE n == events + 1
<1>1. /\ events \in Nat /\ n \in Nat /\ n > events /\ sliced \in Nat /\ sliced <= events
      /\ handed \in SUBSET (1 .. events) /\ dead \in SUBSET handed /\ stored \in [Rows -> Nat]
      /\ flying \in [Tables -> Nat] /\ phase \in {"run", "writer", "latest", "closed"}
  BY DEF RecorderInv, RecorderType
<1>2. handed' = handed \cup {n} /\ n \in Rows /\ n \notin handed
  BY <1>1 DEF AddRow, Rows
<1>3. /\ buffer' \in [Tables -> Seq(Nat)]
      /\ DOMAIN buffer'[t] = 1 .. Len(buffer[t]) + 1
      /\ \A i \in DOMAIN buffer[t] : buffer'[t][i] = buffer[t][i]
      /\ buffer'[t][Len(buffer[t]) + 1] = n
      /\ \A u \in Tables : u # t => buffer'[u] = buffer[u]
      /\ \A m : Waiting(m)' <=> Waiting(m) \/ m = n
  BY <1>1, AddedRowWaits
<1>4. RecorderType'
  <2>1. handed' \in SUBSET (1 .. events') /\ dead' \in SUBSET handed' /\ sliced' <= events'
    BY <1>1, <1>2
  <2>2. lateError' \in BOOLEAN
    BY DEF RecorderInv, RecorderType
  <2>3. QED
    BY <1>1, <1>3, <2>1, <2>2 DEF RecorderType, Rows
<1>5. \A u \in Tables : InOrder(u)
  BY DEF RecorderInv, RowsOrdered
<1>6. ASSUME NEW u \in Tables
      PROVE  /\ buffer[u] \in Seq(Nat) /\ DOMAIN buffer[u] = 1 .. Len(buffer[u]) /\ Len(buffer[u]) \in Nat
             /\ \A k \in DOMAIN buffer[u] : buffer[u][k] \in Nat /\ buffer[u][k] <= events
  <2>1. buffer[u] \in Seq(Nat)
    BY DEF RecorderInv, RecorderType
  <2>2. QED
    BY <1>1, <1>5, <2>1 DEF InOrder
<1>7. ASSUME NEW u \in Tables, NEW k \in DOMAIN buffer'[u]
      PROVE  \/ k \in DOMAIN buffer[u] /\ buffer'[u][k] = buffer[u][k]
             \/ u = t /\ k = Len(buffer[t]) + 1 /\ buffer'[u][k] = n
  <2>1. CASE u = t
    BY <1>3, <1>6, <2>1
  <2>2. CASE u # t
    BY <1>3, <2>2
  <2>3. QED
    BY <2>1, <2>2
<1>8. ASSUME NEW u \in Tables PROVE InOrder(u)'
  <2>1. flying'[u] <= Len(buffer'[u])
    <3>1. Len(buffer[u]) <= Len(buffer'[u])
      <4>1. CASE u = t
        <5>1. buffer'[t] \in Seq(Nat)
          BY <1>3
        <5>2. Len(buffer'[t]) = Len(buffer[t]) + 1
          BY <1>3, <1>6, <5>1
        <5>3. QED
          BY <1>6, <4>1, <5>2
      <4>2. CASE u # t
        BY <1>3, <1>6, <4>2
      <4>3. QED
        BY <4>1, <4>2
    <3>2. flying[u] <= Len(buffer[u]) /\ flying[u] \in Nat /\ flying'[u] = flying[u]
      BY <1>1, <1>5 DEF InOrder
    <3>3. buffer'[u] \in Seq(Nat)
      BY <1>3
    <3>4. QED
      BY <1>6, <3>1, <3>2, <3>3
  <2>2. ASSUME NEW i \in DOMAIN buffer'[u]
        PROVE  /\ buffer'[u][i] \in handed'
               /\ i > flying'[u] => buffer'[u][i] > sliced'
               /\ \A k \in DOMAIN buffer'[u] : i < k => buffer'[u][i] < buffer'[u][k]
               /\ \A v \in Tables : \A k \in DOMAIN buffer'[v] : buffer'[v][k] = buffer'[u][i] => v = u
    <3>1. CASE i \in DOMAIN buffer[u] /\ buffer'[u][i] = buffer[u][i]
      <4>1. /\ buffer[u][i] \in handed
            /\ i > flying[u] => buffer[u][i] > sliced
            /\ \A k \in DOMAIN buffer[u] : i < k => buffer[u][i] < buffer[u][k]
            /\ \A v \in Tables : \A k \in DOMAIN buffer[v] : buffer[v][k] = buffer[u][i] => v = u
        BY <1>5, <3>1 DEF InOrder
      <4>2. buffer[u][i] \in Nat /\ buffer[u][i] <= events /\ buffer[u][i] # n
        BY <1>1, <1>6, <3>1
      <4>3. ASSUME NEW k \in DOMAIN buffer'[u], i < k PROVE buffer'[u][i] < buffer'[u][k]
        BY <1>1, <1>7, <3>1, <4>1, <4>2, <4>3
      <4>4. ASSUME NEW v \in Tables, NEW k \in DOMAIN buffer'[v], buffer'[v][k] = buffer'[u][i]
            PROVE  v = u
        BY <1>7, <3>1, <4>1, <4>2, <4>4
      <4>5. QED
        BY <1>2, <3>1, <4>1, <4>3, <4>4
    <3>2. CASE u = t /\ i = Len(buffer[t]) + 1 /\ buffer'[u][i] = n
      <4>1. ASSUME NEW k \in DOMAIN buffer'[u], i < k PROVE FALSE
        BY <1>3, <1>6, <3>2, <4>1
      <4>2. ASSUME NEW v \in Tables, NEW k \in DOMAIN buffer'[v], buffer'[v][k] = buffer'[u][i]
            PROVE  v = u
        BY <1>1, <1>6, <1>7, <3>2, <4>2
      <4>3. n > sliced
        BY <1>1
      <4>4. QED
        BY <1>2, <3>2, <4>1, <4>2, <4>3
    <3>3. QED
      BY <1>7, <2>2, <3>1, <3>2
  <2>3. QED
    BY <2>1, <2>2 DEF InOrder
<1>9. RowsOrdered'
  BY <1>8 DEF RowsOrdered, RecorderInv
<1>10. RowsOnce'
  <2>1. /\ \A m \in handed : Waiting(m) \/ stored[m] > 0 \/ m \in dead
        /\ \A m \in Rows \ handed : stored[m] = 0
        /\ \A m \in dead : ~Waiting(m)
    BY DEF RecorderInv, RowsOnce
  <2>2. stored[n] = 0 /\ n \notin dead
    BY <1>1, <1>2, <2>1
  <2>3. ~lateError => \A m \in handed : stored[m] <= 1 /\ (Waiting(m) \/ m \in dead => stored[m] = 0)
    BY DEF RecorderInv, RowsOnce
  <2>4. ~lateError' => \A m \in handed' :
           stored'[m] <= 1 /\ (Waiting(m)' \/ m \in dead' => stored'[m] = 0)
    BY <1>2, <1>3, <2>2, <2>3
  <2>5. \A m \in handed' : Waiting(m)' \/ stored'[m] > 0 \/ m \in dead'
    BY <1>2, <1>3, <2>1
  <2>6. (\A m \in Rows \ handed' : stored'[m] = 0) /\ (\A m \in dead' : ~Waiting(m)')
    BY <1>2, <1>3, <2>1, <2>2
  <2>7. QED
    BY <2>4, <2>5, <2>6 DEF RowsOnce
<1>11. QED
  BY <1>4, <1>9, <1>10 DEF RecorderInv

LEMMA QuietStep ==
  ASSUME RecorderInv, UNCHANGED writer, events' \in Nat, events <= events', events' <= MaxEvents,
         phase' \in {"run", "writer", "latest", "closed"},
         phase' \in {"latest", "closed"} => \A t \in Tables : flying[t] = 0
  PROVE  RecorderInv'
<1>1. /\ events \in Nat /\ handed \in SUBSET (1 .. events) /\ sliced \in Nat /\ sliced <= events
  BY DEF RecorderInv, RecorderType
<1>2. handed' \in SUBSET (1 .. events') /\ sliced' <= events'
  BY <1>1 DEF writer
<1>3. RecorderType'
  BY <1>2 DEF RecorderInv, RecorderType, writer, Rows
<1>4. RowsOrdered'
  BY DEF RecorderInv, RowsOrdered, InOrder, writer
<1>5. RowsOnce'
  BY DEF RecorderInv, RowsOnce, Waiting, writer, Rows
<1>6. QED
  BY <1>3, <1>4, <1>5 DEF RecorderInv

LEMMA FlushStep ==
  ASSUME RecorderInv, StartFlush, events' = events, phase' \in {"run", "writer"}
  PROVE  RecorderInv'
<1>1. /\ flying' = [t \in Tables |-> Len(buffer[t])] /\ sliced' = events
      /\ UNCHANGED <<buffer, handed, dead, stored, lateError>>
  BY DEF StartFlush
<1>2. ASSUME NEW t \in Tables
      PROVE  buffer[t] \in Seq(Nat) /\ Len(buffer[t]) \in Nat /\ DOMAIN buffer[t] = 1 .. Len(buffer[t])
  <2>1. buffer[t] \in Seq(Nat)
    BY DEF RecorderInv, RecorderType
  <2>2. QED
    BY <2>1
<1>3. RecorderType'
  BY <1>1, <1>2 DEF RecorderInv, RecorderType, Rows
<1>4. ASSUME NEW t \in Tables PROVE InOrder(t)'
  <2>1. InOrder(t)
    BY DEF RecorderInv, RowsOrdered
  <2>2. flying'[t] = Len(buffer[t]) /\ \A i \in DOMAIN buffer[t] : ~(i > flying'[t])
    BY <1>1, <1>2
  <2>3. QED
    BY <1>1, <1>2, <2>1, <2>2 DEF InOrder
<1>5. RowsOnce'
  BY <1>1 DEF RecorderInv, RowsOnce, Waiting, Rows
<1>6. QED
  BY <1>3, <1>4, <1>5 DEF RecorderInv, RowsOrdered

(* The rows of an insert that has settled leave the buffer in order. *)
LEMMA SettledInOrder ==
  ASSUME RecorderInv, NEW t \in Tables, Settled(t), UNCHANGED <<events, handed, sliced, phase>>
  PROVE  RowsOrdered'
<1>1. /\ buffer' \in [Tables -> Seq(Nat)] /\ flying' \in [Tables -> Nat]
      /\ flying'[t] = 0 /\ DOMAIN buffer'[t] = 1 .. Len(buffer[t]) - flying[t]
      /\ \A i \in DOMAIN buffer'[t] :
           i + flying[t] \in DOMAIN buffer[t] /\ buffer'[t][i] = buffer[t][i + flying[t]]
      /\ \A u \in Tables : u # t => buffer'[u] = buffer[u] /\ flying'[u] = flying[u]
  BY SettledRowsLeave
<1>2. flying[t] \in Nat /\ buffer[t] \in Seq(Nat) /\ \A u \in Tables : InOrder(u)
  BY DEF RecorderInv, RecorderType, RowsOrdered
<1>3. ASSUME NEW u \in Tables
      PROVE  \E d \in Nat :
               /\ flying'[u] + d = flying[u]
               /\ \A k \in DOMAIN buffer'[u] : k + d \in DOMAIN buffer[u] /\ buffer'[u][k] = buffer[u][k + d]
  <2>1. CASE u = t
    <3>1. 0 + flying[t] = flying[t]
      BY <1>2
    <3>2. QED
      BY <1>1, <1>2, <2>1, <3>1
  <2>2. CASE u # t
    <3>1. flying[u] \in Nat /\ buffer[u] \in Seq(Nat)
      BY DEF RecorderInv, RecorderType
    <3>2. flying'[u] + 0 = flying[u] /\ \A k \in DOMAIN buffer[u] : k + 0 = k
      BY <1>1, <2>2, <3>1
    <3>3. QED
      BY <1>1, <2>2, <3>2
  <2>3. QED
    BY <2>1, <2>2
<1>4. ASSUME NEW u \in Tables PROVE InOrder(u)'
  <2>1. flying'[u] <= Len(buffer'[u])
    <3>1. CASE u = t
      <4>1. buffer'[t] \in Seq(Nat)
        BY <1>1
      <4>2. QED
        BY <1>1, <3>1, <4>1
    <3>2. CASE u # t
      BY <1>1, <1>2, <3>2 DEF InOrder
    <3>3. QED
      BY <3>1, <3>2
  <2>2. ASSUME NEW i \in DOMAIN buffer'[u]
        PROVE  /\ buffer'[u][i] \in handed
               /\ i > flying'[u] => buffer'[u][i] > sliced
               /\ \A k \in DOMAIN buffer'[u] : i < k => buffer'[u][i] < buffer'[u][k]
               /\ \A v \in Tables : \A k \in DOMAIN buffer'[v] : buffer'[v][k] = buffer'[u][i] => v = u
    <3>1. PICK d \in Nat :
             /\ flying'[u] + d = flying[u]
             /\ \A k \in DOMAIN buffer'[u] : k + d \in DOMAIN buffer[u] /\ buffer'[u][k] = buffer[u][k + d]
      BY <1>3
    <3>2. DOMAIN buffer'[u] \subseteq Nat /\ flying'[u] \in Nat
      <4>1. buffer'[u] \in Seq(Nat)
        BY <1>1
      <4>2. QED
        BY <1>1, <4>1
    <3>3. /\ buffer[u][i + d] \in handed
          /\ i + d > flying[u] => buffer[u][i + d] > sliced
          /\ \A k \in DOMAIN buffer[u] : i + d < k => buffer[u][i + d] < buffer[u][k]
          /\ \A v \in Tables : \A k \in DOMAIN buffer[v] : buffer[v][k] = buffer[u][i + d] => v = u
      BY <1>2, <2>2, <3>1 DEF InOrder
    <3>4. i > flying'[u] => i + d > flying[u]
      BY <2>2, <3>1, <3>2
    <3>5. ASSUME NEW k \in DOMAIN buffer'[u], i < k PROVE buffer'[u][i] < buffer'[u][k]
      <4>1. i + d < k + d
        BY <2>2, <3>2, <3>5
      <4>2. QED
        BY <2>2, <3>1, <3>3, <3>5, <4>1
    <3>6. ASSUME NEW v \in Tables, NEW k \in DOMAIN buffer'[v], buffer'[v][k] = buffer'[u][i]
          PROVE  v = u
      <4>1. \E m \in DOMAIN buffer[v] : buffer'[v][k] = buffer[v][m]
        BY <1>3, <3>6
      <4>2. QED
        BY <2>2, <3>1, <3>3, <3>6, <4>1
    <3>7. QED
      BY <2>2, <3>1, <3>3, <3>4, <3>5, <3>6
  <2>3. QED
    BY <2>1, <2>2 DEF InOrder
<1>5. phase' \in {"latest", "closed"} => \A u \in Tables : flying'[u] = 0
  <2>1. \A u \in Tables : flying'[u] = 0 \/ flying'[u] = flying[u]
    BY <1>1
  <2>2. QED
    BY <2>1 DEF RecorderInv, RowsOrdered
<1>6. QED
  BY <1>4, <1>5 DEF RowsOrdered

(* The insert under way holds rows that wait. *)
LEMMA SliceWaits ==
  ASSUME RecorderInv, NEW t \in Tables
  PROVE  \A m \in Slice(t) : Waiting(m) /\ m \in handed
<1>1. InOrder(t) /\ flying[t] \in Nat /\ buffer[t] \in Seq(Nat)
  BY DEF RecorderInv, RecorderType, RowsOrdered
<1>2. Slice(t) = {buffer[t][i] : i \in 1 .. flying[t]}
  BY <1>1, SliceIsPrefix DEF RecorderInv
<1>3. \A i \in 1 .. flying[t] : i \in DOMAIN buffer[t]
  BY <1>1 DEF InOrder
<1>4. QED
  BY <1>1, <1>2, <1>3 DEF InOrder, Waiting, ToSet

LEMMA StoredTwice ==
  ASSUME RecorderInv, NEW t \in Tables, StoreSlice(t)
  PROVE  /\ stored' \in [Rows -> Nat]
         /\ \A n \in Rows : stored'[n] = IF n \in Slice(t) THEN stored[n] + 1 ELSE stored[n]
<1>1. stored \in [Rows -> Nat]
  BY DEF RecorderInv, RecorderType
<1>2. QED
  BY <1>1 DEF StoreSlice

LEMMA SucceedStep ==
  ASSUME RecorderInv, NEW t \in Tables, InsertSucceeds(t)
  PROVE  RecorderInv'
<1>1. /\ StoreSlice(t) /\ Settled(t) /\ UNCHANGED <<events, phase, handed, dead, lateError, sliced>>
  BY DEF InsertSucceeds
<1>2. /\ stored' \in [Rows -> Nat]
      /\ \A n \in Rows : stored'[n] = IF n \in Slice(t) THEN stored[n] + 1 ELSE stored[n]
  BY <1>1, StoredTwice
<1>3. /\ buffer' \in [Tables -> Seq(Nat)] /\ flying' \in [Tables -> Nat]
      /\ \A m : Waiting(m)' <=> Waiting(m) /\ m \notin Slice(t)
  BY <1>1, SettledRowsLeave
<1>4. \A m \in Slice(t) : Waiting(m) /\ m \in handed
  BY SliceWaits
<1>5. stored \in [Rows -> Nat] /\ handed \subseteq Rows
  BY RecorderAssumption DEF RecorderInv, RecorderType, Rows
<1>6. RecorderType'
  BY <1>1, <1>2, <1>3 DEF RecorderInv, RecorderType, Rows
<1>7. RowsOrdered'
  BY <1>1, SettledInOrder
<1>8. RowsOnce'
  <2>1. /\ \A n \in handed : Waiting(n) \/ stored[n] > 0 \/ n \in dead
        /\ \A n \in Rows \ handed : stored[n] = 0
        /\ \A n \in dead : ~Waiting(n)
    BY DEF RecorderInv, RowsOnce
  <2>2. ~lateError => \A n \in handed : stored[n] <= 1 /\ (Waiting(n) \/ n \in dead => stored[n] = 0)
    BY DEF RecorderInv, RowsOnce
  <2>3. \A n \in handed : Waiting(n)' \/ stored'[n] > 0 \/ n \in dead
    BY <1>2, <1>3, <1>4, <1>5, <2>1
  <2>4. ~lateError => \A n \in handed : stored'[n] <= 1 /\ (Waiting(n)' \/ n \in dead => stored'[n] = 0)
    BY <1>2, <1>3, <1>4, <1>5, <2>1, <2>2
  <2>5. (\A n \in Rows \ handed : stored'[n] = 0) /\ (\A n \in dead : ~Waiting(n)')
    BY <1>2, <1>3, <1>4, <2>1
  <2>6. Rows' = Rows
    BY DEF Rows
  <2>7. QED
    BY <1>1, <2>3, <2>4, <2>5, <2>6 DEF RowsOnce
<1>9. QED
  BY <1>6, <1>7, <1>8 DEF RecorderInv

LEMMA FailStep ==
  ASSUME RecorderInv, NEW t \in Tables, InsertFails(t)
  PROVE  RecorderInv'
<1>1. /\ (StoreSlice(t) /\ lateError' = TRUE) \/ UNCHANGED <<stored, lateError>>
      /\ UNCHANGED <<events, phase, handed, sliced>>
      /\ UNCHANGED <<buffer, flying, dead>> \/ (Settled(t) /\ dead' = dead \cup Slice(t))
  BY DEF InsertFails
<1>2. /\ stored' \in [Rows -> Nat]
      /\ \A n \in Rows : stored'[n] >= stored[n] /\ (n \notin Slice(t) => stored'[n] = stored[n])
  <2>1. stored \in [Rows -> Nat]
    BY DEF RecorderInv, RecorderType
  <2>2. CASE StoreSlice(t)
    BY <2>1, <2>2, StoredTwice
  <2>3. CASE UNCHANGED stored
    BY <2>1, <2>3
  <2>4. QED
    BY <1>1, <2>2, <2>3
<1>3. \A m \in Slice(t) : Waiting(m) /\ m \in handed
  BY SliceWaits
<1>4. stored \in [Rows -> Nat] /\ handed \in SUBSET Rows /\ dead \in SUBSET handed
  BY RecorderAssumption DEF RecorderInv, RecorderType, Rows
<1>5. lateError' = FALSE => lateError = FALSE /\ stored' = stored
  BY <1>1
<1>6. lateError \in BOOLEAN /\ lateError' \in BOOLEAN
  BY <1>1 DEF RecorderInv, RecorderType
<1>7. /\ \A n \in handed : Waiting(n) \/ stored[n] > 0 \/ n \in dead
      /\ \A n \in Rows \ handed : stored[n] = 0
      /\ \A n \in dead : ~Waiting(n)
      /\ lateError = FALSE => \A n \in handed : stored[n] <= 1 /\ (Waiting(n) \/ n \in dead => stored[n] = 0)
  BY DEF RecorderInv, RowsOnce
<1>8. Rows' = Rows /\ handed' = handed
  BY <1>1 DEF Rows
<1>9. CASE UNCHANGED <<buffer, flying, dead>>
  <2>1. RecorderType'
    BY <1>1, <1>2, <1>6, <1>9 DEF RecorderInv, RecorderType, Rows
  <2>2. RowsOrdered'
    BY <1>1, <1>9 DEF RecorderInv, RowsOrdered, InOrder
  <2>3. \A m : Waiting(m)' <=> Waiting(m)
    BY <1>9 DEF Waiting
  <2>4. \A n \in handed : Waiting(n)' \/ stored'[n] > 0 \/ n \in dead'
    BY <1>2, <1>4, <1>7, <1>9, <2>3
  <2>5. (\A n \in Rows \ handed : stored'[n] = 0) /\ (\A n \in dead' : ~Waiting(n)')
    BY <1>2, <1>3, <1>7, <1>9, <2>3
  <2>6. lateError' = FALSE =>
          \A n \in handed : stored'[n] <= 1 /\ (Waiting(n)' \/ n \in dead' => stored'[n] = 0)
    BY <1>5, <1>7, <1>9, <2>3
  <2>7. RowsOnce'
    BY <1>6, <1>8, <2>4, <2>5, <2>6 DEF RowsOnce
  <2>8. QED
    BY <2>1, <2>2, <2>7 DEF RecorderInv
<1>10. CASE Settled(t) /\ dead' = dead \cup Slice(t)
  <2>1. /\ buffer' \in [Tables -> Seq(Nat)] /\ flying' \in [Tables -> Nat]
        /\ \A m : Waiting(m)' <=> Waiting(m) /\ m \notin Slice(t)
    BY <1>10, SettledRowsLeave
  <2>2. RecorderType'
    <3>1. dead' \in SUBSET handed'
      BY <1>3, <1>4, <1>8, <1>10
    <3>2. QED
      BY <1>1, <1>2, <1>6, <2>1, <3>1 DEF RecorderInv, RecorderType, Rows
  <2>3. RowsOrdered'
    BY <1>1, <1>10, SettledInOrder
  <2>4. \A n \in handed : Waiting(n)' \/ stored'[n] > 0 \/ n \in dead'
    BY <1>2, <1>4, <1>7, <1>10, <2>1
  <2>5. (\A n \in Rows \ handed : stored'[n] = 0) /\ (\A n \in dead' : ~Waiting(n)')
    BY <1>2, <1>3, <1>7, <1>10, <2>1
  <2>6. lateError' = FALSE =>
          \A n \in handed : stored'[n] <= 1 /\ (Waiting(n)' \/ n \in dead' => stored'[n] = 0)
    BY <1>3, <1>5, <1>7, <1>10, <2>1
  <2>7. RowsOnce'
    BY <1>6, <1>8, <2>4, <2>5, <2>6 DEF RowsOnce
  <2>8. QED
    BY <2>2, <2>3, <2>7 DEF RecorderInv
<1>11. QED
  BY <1>1, <1>9, <1>10

-----------------------------------------------------------------------------
(* The recorder: the theorems                                              *)

LEMMA RecorderInit == Init => RecorderInv /\ LatestInv
<1> SUFFICES ASSUME Init PROVE RecorderInv /\ LatestInv
  OBVIOUS
<1>1. ASSUME NEW t \in Tables PROVE buffer[t] = <<>> /\ flying[t] = 0
  BY DEF Init
<1>2. \A n : ~Waiting(n)
  BY <1>1 DEF Waiting, ToSet
<1>3. RecorderType
  <2>1. buffer = [t \in Tables |-> <<>>] /\ <<>> \in Seq(Nat)
    BY DEF Init
  <2>2. buffer \in [Tables -> Seq(Nat)]
    BY <2>1
  <2>3. stored \in [Rows -> Nat] /\ flying \in [Tables -> Nat]
    BY DEF Init
  <2>4. lateError \in BOOLEAN
    BY DEF Init
  <2>5. handed = {} /\ dead = {} /\ events = 0 /\ sliced = 0 /\ phase = "run"
    BY DEF Init
  <2>6. QED
    BY <2>2, <2>3, <2>4, <2>5, RecorderAssumption DEF RecorderType
<1>4. RowsOrdered
  BY <1>1 DEF Init, RowsOrdered, InOrder
<1>5. RowsOnce
  BY <1>2 DEF Init, RowsOnce
<1>6. LatestInv
  BY DEF Init, LatestInv
<1>7. QED
  BY <1>3, <1>4, <1>5, <1>6 DEF RecorderInv

LEMMA RecorderStep == RecorderInv /\ [Next]_vars => RecorderInv'
<1> SUFFICES ASSUME RecorderInv, [Next]_vars PROVE RecorderInv'
  OBVIOUS
<1>1. /\ events \in Nat /\ events <= MaxEvents /\ MaxEvents \in Nat
      /\ phase \in {"run", "writer", "latest", "closed"}
      /\ phase \in {"latest", "closed"} => \A t \in Tables : flying[t] = 0
      /\ \A t \in Tables : flying[t] \in Nat
  BY RecorderAssumption DEF RecorderInv, RecorderType, RowsOrdered
<1>2. ASSUME Handled PROVE events' = events + 1 /\ events' <= MaxEvents
  BY <1>1, <1>2 DEF Handled
<1>3. ASSUME NEW mid \in Mids, NEW gap \in Gaps, HandleBbo(mid, gap) PROVE RecorderInv'
  <2>1. Handled /\ UNCHANGED <<flying, attempt, dead, stored, lateError, sliced, phase>>
    BY <1>3 DEF HandleBbo
  <2>2. CASE AddRow("bbo", events + 1)
    BY <1>2, <2>1, <2>2, EventStep DEF Tables
  <2>3. CASE UNCHANGED <<buffer, handed>>
    BY <1>1, <1>2, <2>1, <2>3, QuietStep DEF writer
  <2>4. QED
    BY <1>3, <2>2, <2>3 DEF HandleBbo
<1>4. CASE HandlePrice \/ HandleTrade
  <2>1. /\ Handled /\ AddRow("price", events + 1)
        /\ UNCHANGED <<flying, dead, stored, lateError, sliced, phase>>
    BY <1>4 DEF HandlePrice, HandleTrade
  <2>2. QED
    BY <1>2, <2>1, EventStep DEF Tables
<1>5. CASE Flush
  BY <1>5, FlushStep DEF Flush
<1>6. ASSUME NEW t \in Tables, InsertSucceeds(t) \/ InsertFails(t) PROVE RecorderInv'
  BY <1>6, SucceedStep, FailStep
<1>7. ASSUME NEW i \in 1 .. MaxUpserts, Upsert(i) \/ UpsertEnds(i) PROVE RecorderInv'
  <2>1. UNCHANGED <<events, writer, phase>>
    BY <1>7 DEF Upsert, UpsertEnds
  <2>2. QED
    BY <1>1, <2>1, QuietStep
<1>8. CASE StopWriter
  <2>1. phase' = "writer" /\ UNCHANGED events
    BY <1>8 DEF StopWriter
  <2>2. CASE UNCHANGED writer
    BY <1>1, <2>1, <2>2, QuietStep
  <2>3. CASE StartFlush
    BY <2>1, <2>3, FlushStep
  <2>4. QED
    BY <1>8, <2>2, <2>3 DEF StopWriter
<1>9. CASE StopLatest
  <2>1. /\ phase' = "latest" /\ UNCHANGED <<events, writer>>
        /\ \A t \in Tables : flying[t] = 0
    BY <1>1, <1>9 DEF StopLatest, Flushing
  <2>2. QED
    BY <1>1, <2>1, QuietStep
<1>10. CASE Disconnect
  <2>1. phase' = "closed" /\ phase = "latest" /\ UNCHANGED <<events, writer>>
    BY <1>10 DEF Disconnect
  <2>2. QED
    BY <1>1, <2>1, QuietStep
<1>11. CASE UNCHANGED vars
  BY <1>1, <1>11, QuietStep DEF vars
<1>12. QED
  BY <1>3, <1>4, <1>5, <1>6, <1>7, <1>8, <1>9, <1>10, <1>11 DEF Next

(* A row that was handed to the writer waits, is stored, or is a dead      *)
(* letter, and without a late error it is one of them only and stored once; *)
(* the last flush of a shutdown leaves only rows that came after it began:  *)
(* for any number of events, retries and flushes (EventWriter, shutdown).  *)
THEOREM RowsAreAccounted == Spec => []RowsAccounted
<1>1. Init => RecorderInv
  BY RecorderInit
<1>2. RecorderInv => RowsAccounted
  <2> SUFFICES ASSUME RecorderInv PROVE RowsAccounted
    OBVIOUS
  <2>1. /\ \A n \in handed : Waiting(n) \/ stored[n] > 0 \/ n \in dead
        /\ stored \in [Rows -> Nat] /\ handed \in SUBSET Rows
    BY RecorderAssumption DEF RecorderInv, RecorderType, RowsOnce, Rows
  <2>2. ~lateError => \A n \in handed : stored[n] <= 1 /\ (Waiting(n) \/ n \in dead => stored[n] = 0)
    BY DEF RecorderInv, RowsOnce
  <2>3. ASSUME phase \in {"latest", "closed"}, NEW n \in 1 .. sliced, Waiting(n) PROVE FALSE
    <3>1. PICK t \in Tables : \E i \in DOMAIN buffer[t] : buffer[t][i] = n
      BY <2>3, WaitingIn
    <3>2. PICK i \in DOMAIN buffer[t] : buffer[t][i] = n
      BY <3>1
    <3>3. flying[t] = 0 /\ InOrder(t) /\ buffer[t] \in Seq(Nat) /\ sliced \in Nat
      BY <2>3 DEF RecorderInv, RecorderType, RowsOrdered
    <3>4. n > sliced
      BY <3>2, <3>3 DEF InOrder
    <3>5. QED
      BY <2>3, <3>3, <3>4
  <2>4. QED
    BY <2>1, <2>2, <2>3 DEF RowsAccounted
<1>3. QED
  BY <1>1, <1>2, RecorderStep, PTL DEF Spec

(* The state changes: it is dirty, and raced if an upsert is under way.    *)
LEMMA UpdateKeepsLatest ==
  ASSUME LatestInv, NEW n \in Nat, LatestUpdated(n)
  PROVE  LatestInv'
<1>1. /\ latest' = n /\ dirty' = TRUE /\ raced' = (raced \/ InTransit)
      /\ UNCHANGED <<upserts, topRow>>
  BY DEF LatestUpdated
<1>2. raced' \in BOOLEAN
  BY <1>1 DEF LatestInv
<1>3. raced' = FALSE => \A i \in 1 .. MaxUpserts : upserts'[i] = 0
  BY <1>1 DEF InTransit
<1>4. topRow' \in Nat /\ upserts' \in [1 .. MaxUpserts -> Nat]
  BY <1>1 DEF LatestInv
<1>5. QED
  BY <1>1, <1>2, <1>3, <1>4 DEF LatestInv

LEMMA BeginKeepsLatest ==
  ASSUME LatestInv, NEW i \in 1 .. MaxUpserts, BeginUpsert(i), dirty = TRUE
  PROVE  LatestInv'
<1>1. /\ upserts' = [upserts EXCEPT ![i] = latest] /\ raced' = (raced \/ InTransit)
      /\ UNCHANGED <<latest, dirty, topRow>>
  BY DEF BeginUpsert
<1>2. latest \in Nat /\ topRow \in Nat /\ upserts \in [1 .. MaxUpserts -> Nat]
  BY DEF LatestInv
<1>3. raced' \in BOOLEAN /\ dirty' \in BOOLEAN
  BY <1>1 DEF LatestInv
<1>4. /\ upserts' \in [1 .. MaxUpserts -> Nat] /\ upserts'[i] = latest
      /\ \A k \in 1 .. MaxUpserts : k # i => upserts'[k] = upserts[k]
  BY <1>1, <1>2
<1>5. raced' = FALSE => \A k \in 1 .. MaxUpserts : upserts[k] = 0
  BY <1>1 DEF InTransit
<1>6. raced' = FALSE => \A k \in 1 .. MaxUpserts : upserts'[k] # 0 => k = i /\ upserts'[k] = latest'
  BY <1>1, <1>4, <1>5
<1>7. dirty' = TRUE
  BY <1>1
<1>8. QED
  BY <1>1, <1>2, <1>3, <1>4, <1>6, <1>7 DEF LatestInv

LEMMA EndKeepsLatest ==
  ASSUME LatestInv, NEW i \in 1 .. MaxUpserts, UpsertEnds(i)
  PROVE  LatestInv'
<1>1. PICK ok \in BOOLEAN :
         /\ topRow' \in IF ok THEN {upserts[i]} ELSE {upserts[i], topRow}
         /\ dirty' = StillDirty(ok)
  BY DEF UpsertEnds
<1>2. /\ upserts[i] # 0 /\ upserts' = [upserts EXCEPT ![i] = 0]
      /\ UNCHANGED <<latest, raced>>
  BY DEF UpsertEnds
<1>3. latest \in Nat /\ topRow \in Nat /\ upserts \in [1 .. MaxUpserts -> Nat]
  BY DEF LatestInv
<1>4. raced \in BOOLEAN /\ dirty \in BOOLEAN
  BY DEF LatestInv
<1>5. (ok = TRUE => dirty' = FALSE) /\ (ok = FALSE => dirty' = dirty)
  BY <1>1 DEF StillDirty
<1>6. dirty' \in BOOLEAN
  BY <1>4, <1>5
<1>7. /\ upserts' \in [1 .. MaxUpserts -> Nat] /\ upserts'[i] = 0
      /\ \A k \in 1 .. MaxUpserts : k # i => upserts'[k] = upserts[k]
  BY <1>2, <1>3
<1>8. ASSUME raced = FALSE
      PROVE  /\ dirty = TRUE /\ upserts[i] = latest
             /\ \A k \in 1 .. MaxUpserts : upserts'[k] = 0
  <2>1. /\ upserts[i] = latest /\ dirty = TRUE
        /\ \A k \in 1 .. MaxUpserts : upserts[k] # 0 => k = i
    BY <1>2, <1>8 DEF LatestInv
  <2>2. QED
    BY <1>7, <2>1
<1>9. topRow' \in Nat
  BY <1>1, <1>3
<1>10. ASSUME raced = FALSE, dirty' = FALSE PROVE topRow' = latest
  <2>1. ok = TRUE
    BY <1>1, <1>5, <1>8, <1>10
  <2>2. QED
    BY <1>1, <1>8, <1>10, <2>1
<1>11. QED
  <2>1. raced' = FALSE => raced = FALSE
    BY <1>2
  <2>2. raced' \in BOOLEAN
    BY <1>2, <1>4
  <2>3. QED
    BY <1>2, <1>3, <1>6, <1>7, <1>8, <1>9, <1>10, <2>1, <2>2 DEF LatestInv

LEMMA LatestStep == RecorderInv /\ LatestInv /\ [Next]_vars => LatestInv'
<1> SUFFICES ASSUME RecorderInv, LatestInv, [Next]_vars PROVE LatestInv'
  OBVIOUS
<1>1. ASSUME UNCHANGED manager PROVE LatestInv'
  BY <1>1 DEF LatestInv, manager
<1>2. events + 1 \in Nat
  BY DEF RecorderInv, RecorderType
<1>3. ASSUME NEW mid \in Mids, NEW gap \in Gaps, HandleBbo(mid, gap) PROVE LatestInv'
  BY <1>2, <1>3, UpdateKeepsLatest DEF HandleBbo
<1>4. CASE HandlePrice \/ HandleTrade
  BY <1>1, <1>2, <1>4, UpdateKeepsLatest DEF HandlePrice, HandleTrade
<1>5. CASE Flush
  BY <1>1, <1>5 DEF Flush
<1>6. ASSUME NEW t \in Tables, InsertSucceeds(t) \/ InsertFails(t) PROVE LatestInv'
  BY <1>1, <1>6 DEF InsertSucceeds, InsertFails
<1>7. ASSUME NEW i \in 1 .. MaxUpserts, Upsert(i) PROVE LatestInv'
  <2>1. dirty = TRUE
    BY <1>7 DEF Upsert, LatestInv
  <2>2. QED
    BY <1>7, <2>1, BeginKeepsLatest DEF Upsert
<1>8. ASSUME NEW i \in 1 .. MaxUpserts, UpsertEnds(i) PROVE LatestInv'
  BY <1>8, EndKeepsLatest
<1>9. CASE StopLatest
  <2>1. CASE UNCHANGED manager
    BY <1>1, <2>1
  <2>2. CASE dirty
    <3>1. dirty = TRUE
      BY <2>2 DEF LatestInv
    <3>2. PICK i \in 1 .. MaxUpserts : BeginUpsert(i)
      BY <1>9, <2>2 DEF StopLatest
    <3>3. QED
      BY <3>1, <3>2, BeginKeepsLatest
  <2>3. QED
    BY <1>9, <2>1, <2>2 DEF StopLatest
<1>10. CASE StopWriter \/ Disconnect
  BY <1>1, <1>10 DEF StopWriter, Disconnect
<1>11. CASE UNCHANGED vars
  BY <1>1, <1>11 DEF vars
<1>12. QED
  BY <1>3, <1>4, <1>5, <1>6, <1>7, <1>8, <1>9, <1>10, <1>11 DEF Next

(* When nothing is dirty and no upsert is on its way, latest_top has the    *)
(* latest state, unless an upsert raced with a change or another upsert     *)
(* (LatestStateManager: update, upsert, stop).                             *)
THEOREM LatestRowCatchesUp == Spec => []LatestCaughtUp
<1>1. Init => RecorderInv /\ LatestInv
  BY RecorderInit
<1>2. LatestInv => LatestCaughtUp
  BY DEF LatestInv, LatestCaughtUp
<1>3. QED
  BY <1>1, <1>2, RecorderStep, LatestStep, PTL DEF Spec

-----------------------------------------------------------------------------
(* The order book: as long as no message is missing, the local book is the *)
(* exchange's, or what pruning has left of it.                             *)

Matches ==
  /\ copy = "exact" => book = exchange
  /\ copy = "pruned" => book.bids \subseteq exchange.bids /\ book.asks \subseteq exchange.asks

FeedInv ==
  /\ exchange \in Books
  /\ book \in [bids : SUBSET BidPrices, asks : SUBSET AskPrices]
  /\ stream = "fresh" => lastSeq = "none"
  /\ stream = "open" /\ lastSeq # "older" => Matches
  /\ TopIsTrue

(* Pruning removes nothing from a side that has no more than MaxLevels. *)
LEMMA NothingToPrune ==
  ASSUME NEW levels \in SUBSET Nat, IsFiniteSet(levels), Cardinality(levels) <= MaxLevels
  PROVE  PruneBids(levels) = levels /\ PruneAsks(levels) = levels
<1>1. ASSUME NEW p \in levels, NEW rest \in SUBSET levels, p \notin rest
      PROVE  Cardinality(rest) < MaxLevels
  <2>1. /\ Cardinality(rest) <= Cardinality(levels)
        /\ Cardinality(levels) = Cardinality(rest) => levels = rest
    BY FS_Subset
  <2>2. Cardinality(rest) \in Nat /\ Cardinality(levels) \in Nat
    BY FS_Subset, FS_CardinalityType
  <2>3. Cardinality(levels) # Cardinality(rest)
    BY <1>1, <2>1
  <2>4. QED
    BY <2>1, <2>2, <2>3, BookAssumption
<1>2. ASSUME NEW p \in levels
      PROVE  /\ Cardinality({q \in levels : q > p}) < MaxLevels
             /\ Cardinality({q \in levels : q < p}) < MaxLevels
  <2>1. p \notin {q \in levels : q > p} /\ p \notin {q \in levels : q < p}
    BY <1>2
  <2>2. QED
    BY <1>1, <2>1
<1>3. QED
  BY <1>2 DEF PruneBids, PruneAsks

LEMMA BooksAreFinite ==
  ASSUME NEW b \in Books
  PROVE  /\ b \in [bids : SUBSET BidPrices, asks : SUBSET AskPrices] /\ ~Crossed(TopOf(b))
         /\ b.bids \in SUBSET Nat /\ IsFiniteSet(b.bids) /\ Cardinality(b.bids) \in Nat
         /\ b.asks \in SUBSET Nat /\ IsFiniteSet(b.asks) /\ Cardinality(b.asks) \in Nat
<1>1. b \in [bids : SUBSET BidPrices, asks : SUBSET AskPrices] /\ ~Crossed(TopOf(b))
  BY DEF Books
<1>2. BidPrices \subseteq Nat /\ AskPrices \subseteq Nat
      /\ b.bids \in SUBSET (BidPrices \cup AskPrices) /\ b.asks \in SUBSET (BidPrices \cup AskPrices)
  BY <1>1, BookAssumption
<1>3. IsFiniteSet(b.bids) /\ IsFiniteSet(b.asks)
  BY <1>2, FS_Subset, BookAssumption
<1>4. QED
  BY <1>1, <1>2, <1>3, FS_CardinalityType

(* What a message makes of a book that it fits: all of the exchange's book, *)
(* or a part of it.                                                        *)
LEMMA MessageFits ==
  ASSUME NEW b \in Books, NEW before \in Books, NEW base,
         base \in [bids : SUBSET BidPrices, asks : SUBSET AskPrices],
         base.bids \subseteq before.bids, base.asks \subseteq before.asks
  PROVE  /\ PruneBids(UpsertSide(base.bids, Side(before.bids, b.bids))) \subseteq b.bids
         /\ PruneAsks(UpsertSide(base.asks, Side(before.asks, b.asks))) \subseteq b.asks
         /\ base = before /\ ~Pruned(b) =>
              /\ PruneBids(UpsertSide(base.bids, Side(before.bids, b.bids))) = b.bids
              /\ PruneAsks(UpsertSide(base.asks, Side(before.asks, b.asks))) = b.asks
<1>1. /\ UpsertSide(base.bids, Side(before.bids, b.bids)) \subseteq b.bids
      /\ UpsertSide(base.asks, Side(before.asks, b.asks)) \subseteq b.asks
  BY DEF UpsertSide, Side
<1>2. ASSUME base = before
      PROVE  /\ UpsertSide(base.bids, Side(before.bids, b.bids)) = b.bids
             /\ UpsertSide(base.asks, Side(before.asks, b.asks)) = b.asks
  BY <1>2 DEF UpsertSide, Side
<1>3. ASSUME ~Pruned(b) PROVE PruneBids(b.bids) = b.bids /\ PruneAsks(b.asks) = b.asks
  <2>1. Cardinality(b.bids) <= MaxLevels /\ Cardinality(b.asks) <= MaxLevels
    BY <1>3, BooksAreFinite, BookAssumption DEF Pruned
  <2>2. QED
    BY <2>1, BooksAreFinite, NothingToPrune
<1>4. \A levels : PruneBids(levels) \subseteq levels /\ PruneAsks(levels) \subseteq levels
  BY DEF PruneBids, PruneAsks
<1>5. QED
  BY <1>1, <1>2, <1>3, <1>4

(* A message that is received, with the book it fits. *)
LEMMA ReceiveStep ==
  ASSUME FeedInv, NEW b \in Books, NEW message, NEW base, NEW before \in Books,
         Receive(message, b),
         base = IF message.type = "SNAPSHOT" THEN EmptyBook ELSE book,
         message.b = Side(before.bids, b.bids), message.a = Side(before.asks, b.asks),
         message.type # "SNAPSHOT" => before = exchange /\ stream = "open",
         message.type = "SNAPSHOT" => before = EmptyBook /\ lastSeq = "none"
  PROVE  FeedInv'
<1> DEFINE after == ApplyMessage(message)
<1>1. /\ exchange' = b /\ book' = after /\ lastTop' = TopAfter(after)
      /\ emitted' = (Emits(after) /\ ~SeqBreak(Emits(after)))
      /\ stream' = IF SeqBreak(Emits(after)) THEN "broken" ELSE "open"
      /\ lastSeq' = IF Emits(after) THEN "last" ELSE IF lastSeq = "none" THEN "none" ELSE "older"
      /\ copy' = IF message.type = "SNAPSHOT" \/ copy = "exact"
                 THEN IF Pruned(b) THEN "pruned" ELSE "exact"
                 ELSE copy
  BY DEF Receive
<1>2. /\ after.bids = PruneBids(UpsertSide(base.bids, Side(before.bids, b.bids)))
      /\ after.asks = PruneAsks(UpsertSide(base.asks, Side(before.asks, b.asks)))
      /\ after = [bids |-> after.bids, asks |-> after.asks]
  BY DEF ApplyMessage
<1>3. base \in [bids : SUBSET BidPrices, asks : SUBSET AskPrices]
  BY DEF FeedInv, EmptyBook
<1>4. /\ b \in [bids : SUBSET BidPrices, asks : SUBSET AskPrices]
      /\ before \in [bids : SUBSET BidPrices, asks : SUBSET AskPrices]
      /\ ~Crossed(TopOf(b))
  BY DEF Books
<1>5. book' \in [bids : SUBSET BidPrices, asks : SUBSET AskPrices]
  <2>1. after.bids \subseteq base.bids \cup b.bids /\ after.asks \subseteq base.asks \cup b.asks
    BY <1>2 DEF PruneBids, PruneAsks, UpsertSide, Side
  <2>2. after.bids \in SUBSET BidPrices /\ after.asks \in SUBSET AskPrices
    BY <1>3, <1>4, <2>1
  <2>3. QED
    BY <1>1, <1>2, <2>2
<1>6. ASSUME stream' = "open", lastSeq' # "older" PROVE Matches'
  <2>1. lastSeq # "older"
    BY <1>1, <1>6 DEF SeqBreak
  <2>2. CASE message.type = "SNAPSHOT"
    <3>1. base = before
      BY <2>2
    <3>2. /\ after.bids \subseteq b.bids /\ after.asks \subseteq b.asks
          /\ ~Pruned(b) => after.bids = b.bids /\ after.asks = b.asks
      BY <1>2, <1>3, <3>1, MessageFits
    <3>3. QED
      BY <1>1, <1>2, <1>4, <2>2, <3>2 DEF Matches
  <2>3. CASE message.type # "SNAPSHOT" /\ stream = "open"
    <3>1. Matches /\ base = book /\ before = exchange
      BY <2>1, <2>3 DEF FeedInv
    <3>2. CASE copy = "exact"
      <4>1. base = before
        BY <3>1, <3>2 DEF Matches
      <4>2. /\ after.bids \subseteq b.bids /\ after.asks \subseteq b.asks
            /\ ~Pruned(b) => after.bids = b.bids /\ after.asks = b.asks
        BY <1>2, <1>3, <4>1, MessageFits
      <4>3. QED
        BY <1>1, <1>2, <1>4, <3>2, <4>2 DEF Matches
    <3>3. CASE copy = "pruned"
      <4>1. after.bids \subseteq b.bids /\ after.asks \subseteq b.asks
        BY <1>2, <1>3, <3>1, <3>3, MessageFits DEF Matches
      <4>2. QED
        BY <1>1, <2>3, <3>3, <4>1 DEF Matches
    <3>4. CASE copy # "exact" /\ copy # "pruned"
      BY <1>1, <2>3, <3>4 DEF Matches
    <3>5. QED
      BY <3>2, <3>3, <3>4
  <2>4. QED
    BY <2>2, <2>3
<1>7. ~Crossed(lastTop')
  BY <1>1 DEF TopAfter, FeedInv, TopIsTrue
<1>8. ASSUME emitted'
      PROVE  stream' = "open" /\ lastSeq' # "older" /\ Emits(after)
  BY <1>1, <1>8
<1>9. ASSUME emitted', copy' = "exact", Complete(TopOf(exchange')) PROVE lastTop' = TopOf(exchange')
  <2>1. after = b
    BY <1>1, <1>6, <1>8, <1>9 DEF Matches
  <2>2. Carried(b) = TopOf(b)
    BY <1>1, <1>9 DEF Carried, Complete, TopOf
  <2>3. QED
    BY <1>1, <1>4, <2>1, <2>2 DEF TopAfter
<1>10. ASSUME emitted', copy' = "pruned"
       PROVE  book'.bids \subseteq exchange'.bids /\ book'.asks \subseteq exchange'.asks
  BY <1>6, <1>8, <1>10 DEF Matches
<1>11. TopIsTrue'
  BY <1>7, <1>9, <1>10 DEF TopIsTrue
<1>12. QED
  BY <1>1, <1>5, <1>6, <1>11 DEF FeedInv

LEMMA FeedStep == FeedInv /\ [FeedNext]_feedVars => FeedInv'
<1> SUFFICES ASSUME FeedInv, [FeedNext]_feedVars PROVE FeedInv'
  OBVIOUS
<1>1. ASSUME NEW b \in Books, Snapshot(b) PROVE FeedInv'
  <2> DEFINE message == SnapshotOf(b)
  <2>1. EmptyBook \in Books
    <3>1. TopOf(EmptyBook) = NoTop
      BY DEF TopOf, EmptyBook, BestBid, BestAsk, NoTop
    <3>2. QED
      BY <3>1 DEF Books, Crossed, Complete, NoTop, EmptyBook
  <2>2. /\ message.type = "SNAPSHOT"
        /\ message.b = Side(EmptyBook.bids, b.bids) /\ message.a = Side(EmptyBook.asks, b.asks)
    BY DEF SnapshotOf, EmptyBook
  <2>3. lastSeq = "none" /\ Receive(message, b)
    BY <1>1 DEF Snapshot, FeedInv
  <2> HIDE DEF message
  <2>4. QED
    BY <2>1, <2>2, <2>3, ReceiveStep
<1>2. ASSUME NEW b \in Books, Delta(b) PROVE FeedInv'
  <2> DEFINE message == DeltaTo(b)
  <2>1. exchange \in Books
    BY DEF FeedInv
  <2>2. /\ message.type # "SNAPSHOT"
        /\ message.b = Side(exchange.bids, b.bids) /\ message.a = Side(exchange.asks, b.asks)
    BY DEF DeltaTo
  <2>3. Receive(message, b) /\ stream = "open"
    BY <1>2 DEF Delta
  <2> HIDE DEF message
  <2>4. QED
    BY <2>1, <2>2, <2>3, ReceiveStep
<1>3. ASSUME NEW b \in Books, Lost(b) PROVE FeedInv'
  <2>1. /\ stream = "open" /\ exchange' = b /\ emitted' = FALSE /\ UNCHANGED <<book, lastTop, stream>>
        /\ lastSeq' = IF lastSeq = "none" THEN "none" ELSE "older"
        /\ copy' = IF lastSeq = "none" THEN "unknown" ELSE copy
    BY <1>3 DEF Lost
  <2>2. lastSeq' # "older" => Matches'
    BY <2>1 DEF Matches
  <2>3. TopIsTrue'
    BY <2>1 DEF FeedInv, TopIsTrue
  <2>4. QED
    BY <2>1, <2>2, <2>3 DEF FeedInv
<1>4. CASE Reconnect
  <2>1. /\ stream' = "fresh" /\ lastSeq' = "none" /\ emitted' = FALSE /\ UNCHANGED <<exchange, book, copy>>
        /\ lastTop' = lastTop \/ lastTop' = NoTop
    BY <1>4 DEF Reconnect
  <2>2. ~Crossed(NoTop)
    BY DEF Crossed, Complete, NoTop
  <2>3. TopIsTrue'
    BY <2>1, <2>2 DEF FeedInv, TopIsTrue
  <2>4. QED
    BY <2>1, <2>3 DEF FeedInv
<1>5. CASE UNCHANGED feedVars
  <2>1. Matches => Matches'
    BY <1>5 DEF Matches, feedVars
  <2>2. TopIsTrue'
    BY <1>5 DEF FeedInv, TopIsTrue, feedVars
  <2>3. QED
    BY <1>5, <2>1, <2>2 DEF FeedInv, feedVars
<1>6. QED
  BY <1>1, <1>2, <1>3, <1>4, <1>5 DEF FeedNext

(* A top of book that is handed on is never crossed, and it is the one of   *)
(* the exchange, or of a part of its book, as long as no lost message went  *)
(* unnoticed: for any prices and any depth (ApplyMessage, checkSequence).   *)
THEOREM TopOfBookIsTrue == FeedSpec => []TopIsTrue
<1>1. FeedInit => FeedInv
  <2>1. FeedInit => ~Crossed(lastTop)
    BY DEF FeedInit, Crossed, Complete, NoTop
  <2>2. QED
    BY <2>1 DEF FeedInit, FeedInv, TopIsTrue, EmptyBook
<1>2. FeedInv => TopIsTrue
  BY DEF FeedInv
<1>3. QED
  BY <1>1, <1>2, FeedStep, PTL DEF FeedSpec

-----------------------------------------------------------------------------
(* The connection: as long as no start loop is overtaken, at most one of    *)
(* them can still open a socket, and no stream ahead of it has an entry.   *)

ConnectionType ==
  /\ active \in [Streams -> {"none", "live", "ended"}]
  /\ leaked \in [Streams -> Nat]
  /\ awaits \in [Loops -> 0 .. StreamCount]
  /\ hung \in SUBSET Loops
  /\ timer \in BOOLEAN /\ isReconnecting \in BOOLEAN
  /\ subscribed \in BOOLEAN /\ stopped \in BOOLEAN /\ overtaken \in BOOLEAN
  /\ isReconnecting => timer

Opening(l) == Running(l) /\ l \notin hung

Alone(l) ==
  /\ \A m \in Loops : Opening(m) => m = l
  /\ \A s \in Streams : s >= awaits[l] => active[s] = "none"

(* Before subscribe() and after the shutdown nothing is under way. *)
Quiet ==
  /\ timer = FALSE /\ active = NoEntries
  /\ \A l \in Loops : ~Opening(l)

Orderly ==
  /\ \A s \in Streams : leaked[s] = 0
  /\ \A s \in Streams : active[s] = "ended" => timer
  /\ \A l \in Loops : Opening(l) => Alone(l)
  /\ subscribed = FALSE \/ stopped = TRUE => Quiet

ConnectionInv == ConnectionType /\ (overtaken = FALSE => Orderly)

LEMMA LeastNumber ==
  ASSUME NEW S \in SUBSET Nat, S # {}
  PROVE  Min(S) \in S /\ \A n \in S : Min(S) <= n
<1>1. PICK n \in S : \A k \in S : ~(<<k, n>> \in OpToRel(<, Nat))
  BY NatLessThanWellFounded, WFMin
<1>2. ASSUME NEW k \in S PROVE n <= k
  <2>1. <<k, n>> \in Nat \X Nat /\ <<k, n>>[1] = k /\ <<k, n>>[2] = n
    OBVIOUS
  <2>2. k < n => <<k, n>> \in OpToRel(<, Nat)
    BY <2>1 DEF OpToRel
  <2>3. ~(k < n)
    BY <1>1, <2>2, Zenon
  <2>4. QED
    BY <2>3
<1>3. QED
  BY <1>2 DEF Min

(* The loop goes on with a stream behind the last one, or is over. *)
LEMMA NextStreamIsBehind ==
  ASSUME NEW from \in Nat, NEW entries
  PROVE  /\ NextStream(from, entries) \in 0 .. StreamCount
         /\ NextStream(from, entries) # 0 => NextStream(from, entries) >= from
<1> DEFINE left == {s \in Streams : s >= from /\ entries[s] = "none"}
<1>1. left \in SUBSET Nat /\ left \subseteq Streams
  BY DEF Streams
<1>2. left # {} => Min(left) \in left
  BY <1>1, LeastNumber
<1>3. QED
  BY <1>2, StreamAssumption DEF NextStream, Streams

-----------------------------------------------------------------------------
(* The connection: every operation keeps the invariant                     *)

LEMMA ConnectionStarts == ConnectionInit => ConnectionInv
<1> SUFFICES ASSUME ConnectionInit PROVE ConnectionInv
  OBVIOUS
<1>1. active = NoEntries /\ NoEntries \in [Streams -> {"none", "live", "ended"}]
      /\ \A s \in Streams : active[s] = "none"
  BY DEF ConnectionInit, NoEntries
<1>2. awaits \in [Loops -> 0 .. StreamCount] /\ \A l \in Loops : awaits[l] = 0
  BY StreamAssumption DEF ConnectionInit
<1>3. leaked \in [Streams -> Nat] /\ \A s \in Streams : leaked[s] = 0
  BY DEF ConnectionInit
<1>4. timer = FALSE /\ isReconnecting = FALSE /\ hung = {}
      /\ subscribed = FALSE /\ stopped = FALSE /\ overtaken = FALSE
  BY DEF ConnectionInit
<1>5. ConnectionType
  BY <1>1, <1>2, <1>3, <1>4 DEF ConnectionType
<1>6. \A l \in Loops : ~Opening(l)
  BY <1>2 DEF Opening, Running
<1>7. QED
  BY <1>1, <1>3, <1>4, <1>5, <1>6 DEF ConnectionInv, Orderly, Quiet

(* disconnect() and connect(), or subscribe(): nothing is entered and no    *)
(* loop can open a socket, unless it is overtaken, when a new one starts.  *)
LEMMA StartStep ==
  ASSUME ConnectionInv, StartLoop(NewLoop, NoEntries), active' = NoEntries,
         UNCHANGED <<leaked, hung>>, timer' = FALSE, isReconnecting' = FALSE,
         subscribed' = TRUE, stopped' \in BOOLEAN, overtaken' \in BOOLEAN,
         overtaken' = FALSE => /\ overtaken = FALSE /\ stopped' = FALSE
                               /\ \A l \in Loops : ~Opening(l)
  PROVE  ConnectionInv'
<1>1. /\ NoEntries \in [Streams -> {"none", "live", "ended"}]
      /\ \A s \in Streams : active'[s] = "none"
  BY DEF NoEntries
<1>2. awaits \in [Loops -> 0 .. StreamCount]
      /\ awaits' = [awaits EXCEPT ![NewLoop] = NextStream(1, NoEntries)]
  BY DEF StartLoop, ConnectionInv, ConnectionType
<1>3. NextStream(1, NoEntries) \in 0 .. StreamCount
  BY NextStreamIsBehind
<1>4. awaits' \in [Loops -> 0 .. StreamCount] /\ \A l \in Loops : l # NewLoop => awaits'[l] = awaits[l]
  BY <1>2, <1>3
<1>5. ConnectionType'
  <2>1. leaked' \in [Streams -> Nat] /\ hung' \in SUBSET Loops
    BY DEF ConnectionInv, ConnectionType
  <2>2. QED
    BY <1>1, <1>4, <2>1 DEF ConnectionType
<1>6. ASSUME overtaken' = FALSE PROVE Orderly'
  <2>1. \A l \in Loops : Opening(l)' => l = NewLoop
    BY <1>4, <1>6 DEF Opening, Running
  <2>2. \A s \in Streams : leaked'[s] = 0
    BY <1>6 DEF ConnectionInv, Orderly
  <2>3. \A l \in Loops : Opening(l)' => Alone(l)'
    BY <1>1, <2>1 DEF Alone
  <2>4. ~(subscribed' = FALSE \/ stopped' = TRUE)
    BY <1>6
  <2>5. QED
    BY <1>1, <2>2, <2>3, <2>4 DEF Orderly
<1>7. QED
  BY <1>5, <1>6 DEF ConnectionInv

(* The shutdown leaves nothing under way, unless it overtakes a loop.      *)
LEMMA ShutdownStep ==
  ASSUME ConnectionInv, Shutdown
  PROVE  ConnectionInv'
<1>1. /\ active' = NoEntries /\ UNCHANGED <<leaked, awaits, hung, subscribed>>
      /\ timer' = FALSE /\ isReconnecting' = FALSE /\ stopped' = TRUE
      /\ overtaken' = (overtaken \/ \E l \in Loops \ hung : Running(l))
  BY DEF Shutdown, StopAll, loops
<1>2. NoEntries \in [Streams -> {"none", "live", "ended"}] /\ \A s \in Streams : active'[s] = "none"
  BY <1>1 DEF NoEntries
<1>3. overtaken' \in BOOLEAN
  BY <1>1 DEF ConnectionInv, ConnectionType
<1>4. ConnectionType'
  BY <1>1, <1>2, <1>3 DEF ConnectionInv, ConnectionType
<1>5. ASSUME overtaken' = FALSE PROVE Orderly'
  <2>1. overtaken = FALSE
    BY <1>1, <1>5 DEF ConnectionInv, ConnectionType
  <2>2. \A l \in Loops : ~Opening(l)'
    BY <1>1, <1>5 DEF Opening, Running
  <2>3. \A s \in Streams : leaked'[s] = 0
    BY <1>1, <2>1 DEF ConnectionInv, Orderly
  <2>4. QED
    BY <1>1, <1>2, <2>2, <2>3 DEF Orderly, Quiet
<1>6. QED
  BY <1>4, <1>5 DEF ConnectionInv

(* A loop that goes on is alone with the streams that it has not reached.  *)
LEMMA GoOnStep ==
  ASSUME ConnectionType, NEW l \in Loops, Opening(l), NEW entries, GoOn(l, awaits[l], entries)
  PROVE  /\ awaits' \in [Loops -> 0 .. StreamCount]
         /\ \A m \in Loops : m # l => awaits'[m] = awaits[m]
         /\ awaits'[l] # 0 => awaits'[l] > awaits[l]
         /\ awaits[l] \in Streams
<1>1. awaits \in [Loops -> 0 .. StreamCount] /\ awaits[l] # 0
  BY DEF ConnectionType, Opening, Running
<1>2. awaits[l] \in Nat /\ awaits[l] + 1 \in Nat /\ awaits[l] \in Streams
  BY <1>1, StreamAssumption DEF Streams
<1>3. awaits' = [awaits EXCEPT ![l] = NextStream(awaits[l] + 1, entries)]
  BY DEF GoOn
<1>4. /\ NextStream(awaits[l] + 1, entries) \in 0 .. StreamCount
      /\ NextStream(awaits[l] + 1, entries) # 0 => NextStream(awaits[l] + 1, entries) >= awaits[l] + 1
  BY <1>2, NextStreamIsBehind
<1>5. awaits'[l] = NextStream(awaits[l] + 1, entries) /\ awaits' \in [Loops -> 0 .. StreamCount]
      /\ \A m \in Loops : m # l => awaits'[m] = awaits[m]
  BY <1>1, <1>3, <1>4
<1>6. awaits'[l] # 0 => awaits'[l] > awaits[l]
  BY <1>2, <1>4, <1>5
<1>7. QED
  BY <1>2, <1>5, <1>6

LEMMA OpensStep ==
  ASSUME ConnectionInv, NEW l \in Loops, Opens(l)
  PROVE  ConnectionInv'
<1> DEFINE s == awaits[l]
           entries == [active EXCEPT ![s] = "live"]
<1>1. /\ Opening(l) /\ GoOn(l, s, entries) /\ active' = entries
      /\ leaked' = [leaked EXCEPT ![s] = IF active[s] = "live" THEN @ + 1 ELSE @]
      /\ UNCHANGED <<hung, timer, isReconnecting, subscribed, stopped, overtaken>>
  BY DEF Opens, Opening, flags, history
<1>2. ConnectionType
  BY DEF ConnectionInv
<1>3. /\ awaits' \in [Loops -> 0 .. StreamCount] /\ s \in Streams
      /\ \A m \in Loops : m # l => awaits'[m] = awaits[m]
      /\ awaits'[l] # 0 => awaits'[l] > s
  BY <1>1, <1>2, GoOnStep
<1>4. active \in [Streams -> {"none", "live", "ended"}] /\ leaked \in [Streams -> Nat]
  BY <1>2 DEF ConnectionType
<1>5. /\ active' \in [Streams -> {"none", "live", "ended"}] /\ leaked' \in [Streams -> Nat]
      /\ active'[s] = "live" /\ \A r \in Streams : r # s => active'[r] = active[r]
      /\ active[s] # "live" => leaked' = leaked
  BY <1>1, <1>3, <1>4
<1>6. ConnectionType'
  BY <1>1, <1>2, <1>3, <1>5 DEF ConnectionType
<1>7. ASSUME overtaken' = FALSE PROVE Orderly'
  <2>1. Orderly /\ Alone(l)
    BY <1>1, <1>7 DEF ConnectionInv, Orderly
  <2>2. active[s] = "none"
    <3>1. s >= s
      BY <1>3 DEF Streams
    <3>2. QED
      BY <1>3, <2>1, <3>1 DEF Alone
  <2>3. \A r \in Streams : leaked'[r] = 0
    BY <1>5, <2>1, <2>2 DEF Orderly
  <2>4. \A r \in Streams : active'[r] = "ended" => timer'
    BY <1>1, <1>5, <2>1 DEF Orderly
  <2>5. \A m \in Loops : Opening(m)' => m = l
    BY <1>1, <1>3, <2>1 DEF Opening, Running, Alone
  <2>6. ASSUME Opening(l)', NEW r \in Streams, r >= awaits'[l] PROVE active'[r] = "none"
    <3>1. r > s
      BY <1>3, <2>6 DEF Opening, Running, Streams
    <3>2. r # s /\ r >= s
      BY <1>3, <3>1 DEF Streams
    <3>3. QED
      BY <1>5, <2>1, <3>2 DEF Alone
  <2>7. \A m \in Loops : Opening(m)' => Alone(m)'
    BY <2>5, <2>6 DEF Alone
  <2>8. ~(subscribed' = FALSE \/ stopped' = TRUE)
    BY <1>1, <2>1 DEF Orderly, Quiet
  <2>9. QED
    BY <2>3, <2>4, <2>7, <2>8 DEF Orderly
<1>8. QED
  BY <1>6, <1>7 DEF ConnectionInv

LEMMA ScheduleStep ==
  ASSUME ConnectionType, ScheduleReconnect
  PROVE  timer' = TRUE /\ isReconnecting' \in BOOLEAN
<1>1. timer \in BOOLEAN /\ isReconnecting \in BOOLEAN /\ (isReconnecting => timer)
  BY DEF ConnectionType
<1>2. CASE timer \/ isReconnecting
  BY <1>1, <1>2 DEF ScheduleReconnect
<1>3. CASE ~(timer \/ isReconnecting)
  BY <1>3 DEF ScheduleReconnect
<1>4. QED
  BY <1>2, <1>3

(* A loop that fails to open its stream goes on, or never does. *)
LEMMA HandshakeFails ==
  ASSUME ConnectionInv, NEW l \in Loops, Hangs(l) \/ Rejects(l)
  PROVE  ConnectionInv'
<1>1. Opening(l) /\ UNCHANGED <<active, leaked, subscribed, stopped, overtaken>>
  BY DEF Hangs, Rejects, Opening, streams
<1>2. ConnectionType
  BY DEF ConnectionInv
<1>3. /\ awaits' \in [Loops -> 0 .. StreamCount] /\ hung' \in SUBSET Loops
      /\ \A m \in Loops : m # l => awaits'[m] = awaits[m]
      /\ Opening(l)' => awaits'[l] >= awaits[l]
      /\ \A m \in Loops : Opening(m)' => Opening(m)
      /\ timer' \in BOOLEAN /\ isReconnecting' \in BOOLEAN
      /\ (timer => timer') /\ (isReconnecting' => timer')
  <2>1. CASE Hangs(l)
    <3>1. hung' = hung \cup {l} /\ UNCHANGED <<awaits, timer, isReconnecting>>
      BY <2>1 DEF Hangs, flags
    <3>2. ~Opening(l)'
      BY <3>1 DEF Opening
    <3>3. hung' \in SUBSET Loops
      BY <1>2, <3>1 DEF ConnectionType
    <3>4. timer' \in BOOLEAN /\ isReconnecting' \in BOOLEAN /\ (timer => timer') /\ (isReconnecting' => timer')
      BY <1>2, <3>1 DEF ConnectionType
    <3>5. QED
      BY <1>2, <3>1, <3>2, <3>3, <3>4 DEF ConnectionType, Opening, Running
  <2>2. CASE Rejects(l)
    <3>1. GoOn(l, awaits[l], active) /\ ScheduleReconnect /\ UNCHANGED hung
      BY <2>2 DEF Rejects
    <3>2. /\ awaits' \in [Loops -> 0 .. StreamCount] /\ awaits[l] \in Streams
          /\ \A m \in Loops : m # l => awaits'[m] = awaits[m]
          /\ awaits'[l] # 0 => awaits'[l] > awaits[l]
      BY <1>1, <1>2, <3>1, GoOnStep
    <3>3. timer' = TRUE /\ isReconnecting' \in BOOLEAN
      BY <1>2, <3>1, ScheduleStep
    <3>4. Opening(l)' => awaits'[l] >= awaits[l]
      BY <3>2 DEF Opening, Running, Streams
    <3>5. \A m \in Loops : Opening(m)' => Opening(m)
      BY <1>1, <3>1, <3>2 DEF Opening, Running
    <3>6. hung' \in SUBSET Loops
      BY <1>2, <3>1 DEF ConnectionType
    <3>7. QED
      BY <3>2, <3>3, <3>4, <3>5, <3>6
  <2>3. QED
    BY <2>1, <2>2
<1>4. ConnectionType'
  <2>1. subscribed' \in BOOLEAN /\ stopped' \in BOOLEAN /\ overtaken' \in BOOLEAN
    BY <1>1, <1>2 DEF ConnectionType
  <2>2. active' \in [Streams -> {"none", "live", "ended"}] /\ leaked' \in [Streams -> Nat]
    BY <1>1, <1>2 DEF ConnectionType
  <2>3. timer' \in BOOLEAN /\ isReconnecting' \in BOOLEAN /\ (isReconnecting' => timer')
    BY <1>3
  <2>4. awaits' \in [Loops -> 0 .. StreamCount] /\ hung' \in SUBSET Loops
    BY <1>3
  <2>5. QED
    BY <2>1, <2>2, <2>3, <2>4 DEF ConnectionType
<1>5. ASSUME overtaken' = FALSE PROVE Orderly'
  <2>1. Orderly /\ Alone(l)
    BY <1>1, <1>5 DEF ConnectionInv, Orderly
  <2>2. \A m \in Loops : Opening(m)' => m = l
    BY <1>3, <2>1 DEF Alone
  <2>3. ASSUME Opening(l)', NEW r \in Streams, r >= awaits'[l] PROVE active'[r] = "none"
    <3>1. r >= awaits[l]
      BY <1>2, <1>3, <2>3 DEF ConnectionType, Streams
    <3>2. QED
      BY <1>1, <2>1, <3>1 DEF Alone
  <2>4. \A m \in Loops : Opening(m)' => Alone(m)'
    BY <2>2, <2>3 DEF Alone
  <2>5. ~(subscribed' = FALSE \/ stopped' = TRUE)
    BY <1>1, <2>1 DEF Orderly, Quiet
  <2>6. \A r \in Streams : leaked'[r] = 0 /\ (active'[r] = "ended" => timer')
    BY <1>1, <1>3, <2>1 DEF Orderly
  <2>7. QED
    BY <2>4, <2>5, <2>6 DEF Orderly
<1>6. QED
  BY <1>4, <1>5 DEF ConnectionInv

LEMMA ListenerStep ==
  ASSUME ConnectionInv, NEW s \in Streams, ListenerEnds(s), ScheduleReconnect,
         UNCHANGED <<awaits, hung, subscribed, stopped, overtaken>>
  PROVE  ConnectionInv'
<1>1. ConnectionType
  BY DEF ConnectionInv
<1>2. active \in [Streams -> {"none", "live", "ended"}] /\ leaked \in [Streams -> Nat]
  BY <1>1 DEF ConnectionType
<1>3. \/ active[s] = "live" /\ active' = [active EXCEPT ![s] = "ended"] /\ leaked' = leaked
      \/ leaked[s] > 0 /\ leaked' = [leaked EXCEPT ![s] = leaked[s] - 1] /\ active' = active
  BY DEF ListenerEnds
<1>4. active' \in [Streams -> {"none", "live", "ended"}] /\ leaked' \in [Streams -> Nat]
  BY <1>2, <1>3
<1>5. timer' = TRUE /\ isReconnecting' \in BOOLEAN
  BY <1>1, ScheduleStep
<1>6. ConnectionType'
  BY <1>1, <1>4, <1>5 DEF ConnectionType
<1>7. ASSUME overtaken' = FALSE PROVE Orderly'
  <2>1. Orderly
    BY <1>7 DEF ConnectionInv
  <2>2. active[s] = "live" /\ active' = [active EXCEPT ![s] = "ended"] /\ leaked' = leaked
    BY <1>2, <1>3, <2>1 DEF Orderly
  <2>3. \A r \in Streams : active[r] = "none" => active'[r] = "none"
    BY <1>2, <2>2
  <2>4. \A m \in Loops : Opening(m)' => Alone(m)'
    BY <2>1, <2>3 DEF Orderly, Opening, Running, Alone
  <2>5. ~(subscribed' = FALSE \/ stopped' = TRUE)
    BY <2>1, <2>2 DEF Orderly, Quiet, NoEntries
  <2>6. QED
    BY <1>5, <2>1, <2>2, <2>4, <2>5 DEF Orderly
<1>8. QED
  BY <1>6, <1>7 DEF ConnectionInv

LEMMA ConnectionStep == ConnectionInv /\ [ConnectionNext]_connectionVars => ConnectionInv'
<1> SUFFICES ASSUME ConnectionInv, [ConnectionNext]_connectionVars PROVE ConnectionInv'
  OBVIOUS
<1>1. /\ subscribed \in BOOLEAN /\ stopped \in BOOLEAN /\ overtaken \in BOOLEAN
      /\ timer \in BOOLEAN
  BY DEF ConnectionInv, ConnectionType
<1>2. CASE Subscribe
  <2>1. /\ subscribed = FALSE /\ stopped = FALSE /\ subscribed' = TRUE /\ StartLoop(NewLoop, active)
        /\ UNCHANGED <<active, leaked, hung, timer, isReconnecting, stopped, overtaken>>
    BY <1>1, <1>2 DEF Subscribe, streams, flags
  <2>2. CASE overtaken = FALSE
    <3>1. Quiet
      BY <2>1, <2>2 DEF ConnectionInv, Orderly
    <3>2. active = NoEntries /\ timer = FALSE /\ (\A l \in Loops : ~Opening(l)) /\ isReconnecting = FALSE
      BY <3>1 DEF Quiet, ConnectionInv, ConnectionType
    <3>3. QED
      BY <1>1, <2>1, <2>2, <3>2, StartStep
  <2>3. CASE overtaken = TRUE
    <3>1. awaits' \in [Loops -> 0 .. StreamCount]
      <4>1. NextStream(1, active) \in 0 .. StreamCount
        BY NextStreamIsBehind
      <4>2. QED
        BY <2>1, <4>1 DEF StartLoop, ConnectionInv, ConnectionType
    <3>2. QED
      BY <2>1, <2>3, <3>1 DEF ConnectionInv, ConnectionType
  <2>4. QED
    BY <1>1, <2>2, <2>3
<1>3. CASE TimerFires \/ Watchdog
  <2>1. /\ StopAll /\ timer' = FALSE /\ isReconnecting' = FALSE /\ StartLoop(NewLoop, active')
        /\ UNCHANGED <<hung, subscribed, stopped>>
    BY <1>3 DEF TimerFires, Watchdog, Connected
  <2>2. /\ active' = NoEntries /\ UNCHANGED leaked
        /\ overtaken' = (overtaken \/ \E l \in Loops \ hung : Running(l))
    BY <2>1 DEF StopAll
  <2>3. overtaken' \in BOOLEAN
    BY <1>1, <2>2
  <2>4. ASSUME overtaken' = FALSE
        PROVE  /\ overtaken = FALSE
               /\ \A l \in Loops : ~Opening(l)
    BY <1>1, <2>2, <2>4 DEF Opening, Running
  <2>5. overtaken' = FALSE => subscribed = TRUE /\ stopped = FALSE
    <3>1. overtaken' = FALSE => Orderly
      BY <2>4 DEF ConnectionInv
    <3>2. CASE TimerFires
      <4>1. timer = TRUE
        BY <1>1, <3>2 DEF TimerFires
      <4>2. QED
        BY <1>1, <3>1, <4>1 DEF Orderly, Quiet
    <3>3. CASE Watchdog
      BY <1>1, <3>3 DEF Watchdog
    <3>4. QED
      BY <1>3, <3>2, <3>3
  <2>6. CASE overtaken' = FALSE
    BY <1>1, <2>1, <2>2, <2>3, <2>4, <2>5, <2>6, StartStep
  <2>7. CASE overtaken' = TRUE
    <3>1. awaits' \in [Loops -> 0 .. StreamCount]
      <4>1. NextStream(1, active') \in 0 .. StreamCount
        BY NextStreamIsBehind
      <4>2. QED
        BY <2>1, <4>1 DEF StartLoop, ConnectionInv, ConnectionType
    <3>2. active' \in [Streams -> {"none", "live", "ended"}]
      BY <2>2 DEF NoEntries
    <3>3. ConnectionType'
      BY <1>1, <2>1, <2>2, <2>3, <3>1, <3>2 DEF ConnectionInv, ConnectionType
    <3>4. QED
      BY <2>7, <3>3 DEF ConnectionInv
  <2>8. QED
    BY <2>3, <2>6, <2>7
<1>4. CASE Shutdown
  BY <1>4, ShutdownStep
<1>5. ASSUME NEW l \in Loops, Opens(l) \/ Hangs(l) \/ Rejects(l) PROVE ConnectionInv'
  BY <1>5, OpensStep, HandshakeFails
<1>6. ASSUME NEW s \in Streams, StreamEnds(s) \/ SequenceBreak(s) PROVE ConnectionInv'
  <2>1. ListenerEnds(s) /\ ScheduleReconnect /\ UNCHANGED <<awaits, hung, subscribed, stopped, overtaken>>
    BY <1>6 DEF StreamEnds, SequenceBreak, loops
  <2>2. QED
    BY <2>1, ListenerStep
<1>7. CASE UNCHANGED connectionVars
  BY <1>7 DEF connectionVars, streams, loops, flags, history, ConnectionInv, ConnectionType,
              Orderly, Quiet, Alone, Opening, Running
<1>8. QED
  BY <1>2, <1>3, <1>4, <1>5, <1>6, <1>7 DEF ConnectionNext

(* As long as no start loop is overtaken while it waits for a handshake,    *)
(* a stream has one listener at most, the shutdown leaves none, and one     *)
(* that has ended is waited for by the reconnection timer: for any number   *)
(* of streams, of loops and of faults (startSubscription, stopAllStreams,   *)
(* scheduleReconnect).                                                     *)
THEOREM ConnectionStaysClean ==
  ConnectionInit /\ [][ConnectionNext]_connectionVars => []CleanUnlessOvertaken
<1>1. ConnectionInv => CleanUnlessOvertaken
  <2> SUFFICES ASSUME ConnectionInv, ~overtaken PROVE CleanUnlessOvertaken
    BY DEF CleanUnlessOvertaken
  <2>1. overtaken = FALSE /\ stopped \in BOOLEAN
    BY DEF ConnectionInv, ConnectionType
  <2>2. Orderly
    BY <2>1 DEF ConnectionInv
  <2>3. QED
    BY <2>1, <2>2 DEF Orderly, Quiet, CleanUnlessOvertaken
<1>2. QED
  BY <1>1, ConnectionStarts, ConnectionStep, PTL
=============================================================================
