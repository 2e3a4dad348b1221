------------------------ MODULE MarketDataRecorder ------------------------
(***************************************************************************)
(* The ingestor behind its market data adapter: the handlers of bbo, trade *)
(* and price events update the latest state, throttle the best bid and     *)
(* offer and append rows to the writer's buffers; timers flush the buffers *)
(* and upsert the latest state; a shutdown stops one service after the     *)
(* other while events still arrive.                                        *)
(*                                                                         *)
(* A row is the number of the event it was made from.  The two tables are  *)
(* md_bbo and one of md_price and md_trade, which the writer treats alike; *)
(* of a best bid and offer only the mid matters.  Funding events do        *)
(* nothing here.                                                           *)
(***************************************************************************)
EXTENDS Integers, Sequences, SequencesExt

CONSTANTS
  Mids,          \* mid prices of the best bids and offers
  MaxEvents,     \* bound: events in a behaviour
  MaxUpserts,    \* bound: upserts of latest_top under way together
  MaxRetries,    \* attempts of an insert
  ThrottleMs,    \* BBO_THROTTLE_MS, in the unit of Gaps
  Gaps,          \* time between two events
  MinChange      \* BBO_MIN_CHANGE_BPS, as a change of the mid

ASSUME RecorderAssumption ==
  /\ Mids \subseteq Nat \ {0}
  /\ MaxEvents \in Nat /\ MaxUpserts \in Nat /\ MaxRetries \in Nat \ {0}
  /\ Gaps \subseteq Nat /\ ThrottleMs \in Nat /\ MinChange \in Nat

Tables == {"bbo", "price"}

VARIABLES
  events,       \* number of events handled so far
  sinceWrite,   \* time since lastWriteMs of the throttler, capped
  lastMid,      \* lastMid of the throttler, 0 when null
  buffer,       \* rows of each table that wait in memory
  flying,       \* how many of them the insert under way has, 0 without one
  attempt,      \* attempts that insert has made
  handed,       \* history: rows handed to the writer
  dead,         \* rows in the dead letter buffer
  stored,       \* how often each row was inserted
  lateError,    \* history: an insert stored its rows and failed
  sliced,       \* history: events at the last start of a flush
  latest,       \* LatestState as the event that changed it last, 0 when null
  dirty,
  upserts,      \* the values of the upserts under way, 0 for none
  final,        \* the upsert that stop() awaits, 0 before
  topRow,       \* latest_top
  raced,        \* history: the state changed, or an upsert began, during an upsert
  phase         \* of the shutdown

throttler == <<sinceWrite, lastMid>>
writer == <<buffer, handed, flying, attempt, dead, stored, lateError, sliced>>
manager == <<latest, dirty, upserts, final, topRow, raced>>
vars == <<events, throttler, writer, manager, phase>>

Rows == 1 .. MaxEvents
InTransit == \E i \in 1 .. MaxUpserts : upserts[i] # 0
Flushing == \E t \in Tables : flying[t] > 0

Init ==
  /\ events = 0
  /\ sinceWrite = ThrottleMs /\ lastMid = 0
  /\ buffer = [t \in Tables |-> <<>>]
  /\ flying = [t \in Tables |-> 0]
  /\ attempt = [t \in Tables |-> 0]
  /\ handed = {} /\ dead = {} /\ stored = [n \in Rows |-> 0] /\ lateError = FALSE /\ sliced = 0
  /\ latest = 0 /\ dirty = FALSE /\ topRow = 0 /\ raced = FALSE
  /\ upserts = [i \in 1 .. MaxUpserts |-> 0] /\ final = 0
  /\ phase = "run"

-----------------------------------------------------------------------------
(* Event handlers                                                          *)

Handled == phase # "closed" /\ events < MaxEvents /\ events' = events + 1

(* A state that changes while its old value is on the way to the database. *)
LatestUpdated(n) ==
  /\ latest' = n
  /\ dirty' = TRUE
  /\ raced' = (raced \/ InTransit)
  /\ UNCHANGED <<upserts, final, topRow>>

AddRow(t, n) ==
  /\ buffer' = [buffer EXCEPT ![t] = Append(@, n)]
  /\ handed' = handed \cup {n}

(* decide of the throttler; the first event, enough time or enough change. *)
ShouldWrite(mid, since) ==
  \/ lastMid = 0
  \/ since >= ThrottleMs
  \/ mid - lastMid >= MinChange
  \/ lastMid - mid >= MinChange

Elapsed(gap) == IF sinceWrite + gap > ThrottleMs THEN ThrottleMs ELSE sinceWrite + gap

(* Best bids and offers are never crossed (TopIsTrue of OrderBookFeed), so   *)
(* the guard of updateBbo always lets them through.                        *)
HandleBbo(mid, gap) ==
  /\ Handled
  /\ LatestUpdated(events + 1)
  /\ IF ShouldWrite(mid, Elapsed(gap))
     THEN AddRow("bbo", events + 1) /\ sinceWrite' = 0 /\ lastMid' = mid
     ELSE sinceWrite' = Elapsed(gap) /\ UNCHANGED <<buffer, handed, lastMid>>
  /\ UNCHANGED <<flying, attempt, dead, stored, lateError, sliced, phase>>

(* Mark and index prices change a latest state that exists; trades none.   *)
HandlePrice ==
  /\ Handled
  /\ AddRow("price", events + 1)
  /\ IF latest = 0 THEN UNCHANGED manager ELSE LatestUpdated(events + 1)
  /\ UNCHANGED <<throttler, flying, attempt, dead, stored, lateError, sliced, phase>>

HandleTrade ==
  /\ Handled
  /\ AddRow("price", events + 1)
  /\ UNCHANGED <<throttler, flying, attempt, dead, stored, lateError, sliced, manager, phase>>

-----------------------------------------------------------------------------
(* Event writer                                                            *)

(* flushOnce takes what is in the buffers and leaves it there. *)
StartFlush ==
  /\ flying' = [t \in Tables |-> Len(buffer[t])]
  /\ attempt' = [t \in Tables |-> IF buffer[t] = <<>> THEN 0 ELSE 1]
  /\ sliced' = events
  /\ UNCHANGED <<buffer, handed, dead, stored, lateError>>

(* Mutant: a flush waits for rows of the first table.                      *)
FlushWithBbo ==
  /\ phase = "run" /\ ~Flushing /\ buffer["bbo"] # <<>>
  /\ StartFlush
  /\ UNCHANGED <<events, throttler, manager, phase>>

(* The interval; a flush in flight is joined. *)
Flush ==
  /\ phase = "run"
  /\ ~Flushing
  /\ \E t \in Tables : buffer[t] # <<>>
  /\ StartFlush
  /\ UNCHANGED <<events, throttler, manager, phase>>

Slice(t) == ToSet(SubSeq(buffer[t], 1, flying[t]))

(* Mutant: the buffer is emptied, with what was added during the insert.   *)
RemainingNone(t) == <<>>

Remaining(t) == SubSeq(buffer[t], flying[t] + 1, Len(buffer[t]))

Settled(t) ==
  /\ buffer' = [buffer EXCEPT ![t] = Remaining(t)]
  /\ flying' = [flying EXCEPT ![t] = 0]
  /\ attempt' = [attempt EXCEPT ![t] = 0]

StoreSlice(t) == stored' = [n \in Rows |-> IF n \in Slice(t) THEN stored[n] + 1 ELSE stored[n]]

InsertSucceeds(t) ==
  /\ flying[t] > 0
  /\ StoreSlice(t)
  /\ Settled(t)
  /\ UNCHANGED <<events, throttler, manager, phase, handed, dead, lateError, sliced>>

(* The insert fails, possibly after it stored the rows; it is repeated, and *)
(* the third time the rows become a dead letter.                           *)
InsertFails(t) ==
  /\ flying[t] > 0
  /\ \/ StoreSlice(t) /\ lateError' = TRUE
     \/ UNCHANGED <<stored, lateError>>
  /\ IF attempt[t] < MaxRetries
     THEN attempt' = [attempt EXCEPT ![t] = @ + 1] /\ UNCHANGED <<buffer, flying, dead>>
     ELSE Settled(t) /\ dead' = dead \cup Slice(t)
  /\ UNCHANGED <<events, throttler, manager, phase, handed, sliced>>

-----------------------------------------------------------------------------
(* Latest state                                                            *)

(* upsert(): its values are those of the call.  The first free slot.       *)
BeginUpsert(i) ==
  /\ upserts[i] = 0 /\ \A j \in 1 .. i - 1 : upserts[j] # 0
  /\ upserts' = [upserts EXCEPT ![i] = latest]
  /\ raced' = (raced \/ InTransit)
  /\ UNCHANGED <<latest, dirty, topRow>>

Upsert(i) ==
  /\ phase \in {"run", "writer"}
  /\ dirty
  /\ BeginUpsert(i)
  /\ UNCHANGED <<events, throttler, writer, phase, final>>

(* Mutant: a failed upsert clears dirty too.                               *)
StillDirtyNever(landed) == FALSE

(* dirty is cleared by the one that succeeded, whatever came in between. *)
StillDirty(landed) == IF landed THEN FALSE ELSE dirty

UpsertEnds(i) ==
  /\ upserts[i] # 0
  /\ upserts' = [upserts EXCEPT ![i] = 0]
  /\ \E ok \in BOOLEAN :
       /\ topRow' \in IF ok THEN {upserts[i]} ELSE {upserts[i], topRow}
       /\ dirty' = StillDirty(ok)
  /\ UNCHANGED <<events, throttler, writer, phase, latest, final, raced>>

-----------------------------------------------------------------------------
(* Shutdown                                                                *)

(* eventWriter.stop(): a flush in flight is joined, otherwise one starts.  *)
StopWriter ==
  /\ phase = "run"
  /\ phase' = "writer"
  /\ IF Flushing THEN UNCHANGED writer ELSE StartFlush
  /\ UNCHANGED <<events, throttler, manager>>

(* latestStateManager.stop(), once the writer has stopped. *)
StopLatest ==
  /\ phase = "writer" /\ ~Flushing
  /\ phase' = "latest"
  /\ IF dirty
     THEN \E i \in 1 .. MaxUpserts : BeginUpsert(i) /\ final' = i
     ELSE UNCHANGED manager
  /\ UNCHANGED <<events, throttler, writer>>

(* disconnect(), once the upsert of stop() is over. *)
Disconnect ==
  /\ phase = "latest"
  /\ final # 0 => upserts[final] = 0
  /\ phase' = "closed"
  /\ UNCHANGED <<events, throttler, writer, manager>>

Next ==
  \/ HandlePrice \/ HandleTrade
  \/ \E mid \in Mids, gap \in Gaps : HandleBbo(mid, gap)
  \/ Flush \/ \E t \in Tables : InsertSucceeds(t) \/ InsertFails(t)
  \/ \E i \in 1 .. MaxUpserts : Upsert(i) \/ UpsertEnds(i)
  \/ StopWriter \/ StopLatest \/ Disconnect

Spec == Init /\ [][Next]_vars

(* The interval goes on and every insert ends. *)
RecorderFairness ==
  /\ WF_vars(Flush)
  /\ \A t \in Tables : WF_vars(InsertSucceeds(t) \/ InsertFails(t))

-----------------------------------------------------------------------------
(* Properties                                                              *)

Waiting(n) == \E t \in Tables : n \in ToSet(buffer[t])

(* Every row handed to the writer waits in its buffer, is stored, or is a   *)
(* dead letter; it is stored once, and not dead or waiting then, unless an  *)
(* insert failed that had stored it.  After the shutdown only rows wait that *)
(* came after the last flush began.                                        *)
RowsAccounted ==
  /\ \A n \in handed : Waiting(n) \/ stored[n] > 0 \/ n \in dead
  /\ ~lateError => \A n \in handed :
       /\ stored[n] <= 1
       /\ stored[n] = 1 => ~Waiting(n) /\ n \notin dead
  /\ phase \in {"latest", "closed"} => \A n \in 1 .. sliced : ~Waiting(n)

(* latest_top has the latest state when nothing is dirty or on its way,     *)
(* unless the state changed, or another upsert began, during an upsert.     *)
(* Then dirty is cleared for a state that was never written.               *)
LatestCaughtUp ==
  (~dirty /\ ~InTransit /\ ~raced) => topRow = latest

(* A row leaves the buffer some day: as a row of the table or as a dead      *)
(* letter, unless it arrives when the last flush of a shutdown has begun.   *)
RowsSettle ==
  \A n \in Rows :
    Waiting(n) ~> (stored[n] > 0 \/ n \in dead \/ (phase # "run" /\ n > sliced))
=============================================================================
