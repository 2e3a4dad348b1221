----------------------------- MODULE FillTracking -----------------------------
(***************************************************************************)
(* How fills reach the executor: the messages of the account stream, the   *)
(* adapter that makes fill events of them (execution-adapter.ts), and what *)
(* counts those events: the order tracker, the position tracker with its   *)
(* REST syncs, and the queue of ex_fill.                                   *)
(*                                                                         *)
(* Quantities are counted in units of the planner, which are finer than the *)
(* step of the market.  Orders are placed and cancelled by ticks, at any    *)
(* time; DecisionCycle has the ticks.                                      *)
(***************************************************************************)
EXTENDS Integers, Sequences, FiniteSetsExt

CONSTANTS
  Orders,       \* orders of one run, each used once
  Buys,         \* the ones that buy
  Requested,    \* size of each order as the planner asked for it
  QtyStep,      \* the market's minOrderSizeChange
  MinQty,       \* the market's minOrderSize
  TradeModes,   \* may the message of a fill carry the trade? {TRUE}, {FALSE} or both
  Syncs         \* syncPosition calls that may be in flight at once

ASSUME FillAssumption ==
  /\ Buys \subseteq Orders
  /\ Requested \in [Orders -> Nat \ {0}]
  /\ QtyStep \in Nat \ {0}
  /\ MinQty \in Nat \ {0}
  /\ TradeModes \subseteq BOOLEAN

VARIABLES
  order,       \* external: per order, where it is and how much of it is filled
  stream,      \* account messages sent and not yet handled
  link,        \* the account stream: not yet connected, up, or ended for good
  placing,     \* orders whose placement is still awaited
  lastFill,    \* lastFillByExchangeOrderId: filledQty last seen, 0 when unknown
  tracked,     \* OrderTracker: size and filledSize of an order, or Absent
  size,        \* PositionTracker.size
  sync,        \* syncPosition calls: asked, or answered with a position
  recorded,    \* units queued for ex_fill, per order, one too many at most
  exact,       \* history: no trade in a message, no message missed, no restart
  plain        \* history: exact, and no snapshot has replaced the tracker so far

exchange == <<order, stream>>
executor == <<placing, lastFill, tracked, size, sync, recorded>>
vars == <<exchange, link, executor, exact, plain>>

Absent == [size |-> 0, filledSize |-> 0]
NoSync == [pc |-> "idle", position |-> 0]

Signed(o, units) == IF o \in Buys THEN units ELSE -units

RoundDownToStep(qty) == (qty \div QtyStep) * QtyStep
RoundUpToStep(qty) == RoundDownToStep(qty + QtyStep - 1)

(* The size the adapter sends to the exchange: a multiple of the step, and  *)
(* raised to the minimum of the market when it is less.                    *)
PlacedSize(o) ==
  IF RoundDownToStep(Requested[o]) < MinQty
  THEN RoundUpToStep(MinQty)
  ELSE RoundDownToStep(Requested[o])

Raised(o) == PlacedSize(o) > Requested[o]

(* The position at the exchange.                                           *)
Truth == MapThenSumSet(LAMBDA o : Signed(o, order[o].filled), Orders)

Open(o) == order[o].status = "open"

Init ==
  /\ order = [o \in Orders |-> [status |-> "unused", filled |-> 0]]
  /\ stream = << >>
  /\ link = "starting"
  /\ placing = {}
  /\ lastFill = [o \in Orders |-> 0]
  /\ tracked = [o \in Orders |-> Absent]
  /\ size = 0
  /\ sync = [s \in Syncs |-> NoSync]
  /\ recorded = [o \in Orders |-> 0]
  /\ exact = TRUE
  /\ plain = TRUE

-----------------------------------------------------------------------------
(* The exchange                                                            *)

(* A message is sent, with the quantity of a trade or without (0); it is    *)
(* missed when nothing listens.                                            *)
Send(o, trade) ==
  /\ stream' = IF link = "up"
               THEN Append(stream, [order |-> o, trade |-> trade, filledQty |-> order'[o].filled,
                                    ended |-> order'[o].status = "done"])
               ELSE stream
  /\ exact' = (exact /\ link = "up" /\ trade = 0)
  /\ plain' = (plain /\ exact')

Accept(o) ==
  /\ order[o].status = "unused" /\ o \in placing
  /\ order' = [order EXCEPT ![o].status = "open"]
  /\ UNCHANGED <<stream, link, executor, exact, plain>>

(* Some of what is left is filled, in steps of the market; the update of    *)
(* the order carries its filledQty, and the trade may come in the same      *)
(* message.                                                                *)
Fill(o) ==
  /\ Open(o)
  /\ \E qty \in {q \in 1 .. PlacedSize(o) - order[o].filled : q % QtyStep = 0} :
       LET filled == order[o].filled + qty
       IN  /\ order' = [order EXCEPT ![o] =
                [status |-> IF filled = PlacedSize(o) THEN "done" ELSE "open", filled |-> filled]]
           /\ \E withTrade \in TradeModes : Send(o, IF withTrade THEN qty ELSE 0)
  /\ UNCHANGED <<link, executor>>

(* The order is cancelled, by a tick or from outside.                      *)
Cancelled(o) ==
  /\ Open(o)
  /\ order' = [order EXCEPT ![o].status = "done"]
  /\ Send(o, 0)
  /\ UNCHANGED <<link, executor>>

-----------------------------------------------------------------------------
(* The adapter and the handlers of its events                              *)

(* Mutant: a quantity seen for the first time is only remembered.           *)
CountedUnlessFirst(m) ==
  m.trade + (IF lastFill[m.order] > 0 /\ m.filledQty > lastFill[m.order] THEN m.filledQty - lastFill[m.order] ELSE 0)

(* The units of the fill events one message leads to: its trade, and what   *)
(* filledQty grew by since the last update.                                *)
Counted(m) ==
  m.trade + (IF m.filledQty > lastFill[m.order] THEN m.filledQty - lastFill[m.order] ELSE 0)

(* Mutant: any fill is taken for the last one.                             *)
TrackedAfterAnyFill(o, units, ended) ==
  IF tracked[o] = Absent \/ ended \/ units > 0 THEN Absent ELSE tracked[o]

(* updateFromFill and updateFromOrderEvent of the tracker: filledSize is    *)
(* compared with the size the tracker has, the requested one after addOrder *)
(* and the exchange's after a snapshot.                                    *)
TrackedAfter(o, units, ended) ==
  IF tracked[o] = Absent \/ ended \/ (units > 0 /\ tracked[o].filledSize + units >= tracked[o].size)
  THEN Absent
  ELSE [tracked[o] EXCEPT !.filledSize = @ + units]

(* handleAccountMessage and everything its events cause: the tracker, the   *)
(* position and the queue of ex_fill.  (The debounce timer only decides     *)
(* when a sync starts.)                                                    *)
HandleMessage ==
  /\ link = "up" /\ stream # << >>
  /\ LET m == Head(stream)
         units == Counted(m)
     IN  /\ lastFill' = [lastFill EXCEPT ![m.order] = m.filledQty]
         /\ tracked' = [tracked EXCEPT ![m.order] = TrackedAfter(m.order, units, m.ended)]
         /\ size' = size + Signed(m.order, units)
         /\ recorded' = [recorded EXCEPT ![m.order] = Min({@ + units, PlacedSize(m.order) + 1})]
  /\ stream' = Tail(stream)
  /\ UNCHANGED <<order, link, placing, sync, exact, plain>>

Connect ==
  /\ link = "starting"
  /\ link' = "up"
  /\ UNCHANGED <<exchange, executor, exact, plain>>

(* Connecting fails, or the stream ends: it is not opened again, and what   *)
(* was sent is lost.                                                       *)
StreamEnds ==
  /\ link # "ended"
  /\ link' = "ended"
  /\ stream' = << >>
  /\ exact' = FALSE
  /\ plain' = FALSE
  /\ UNCHANGED <<order, executor>>

-----------------------------------------------------------------------------
(* Placement, snapshots of open orders, syncs of the position              *)

(* Ticks begin once the connections have been tried.                       *)
Place(o) ==
  /\ link # "starting"
  /\ order[o].status = "unused" /\ o \notin placing
  /\ placing' = placing \cup {o}
  /\ UNCHANGED <<exchange, link, lastFill, tracked, size, sync, recorded, exact, plain>>

(* addOrder after the await: with the requested size and filledSize 0,      *)
(* whatever was placed and filled.                                         *)
Track(o) ==
  /\ o \in placing /\ order[o].status # "unused"
  /\ placing' = placing \ {o}
  /\ tracked' = [tracked EXCEPT ![o] = [size |-> Requested[o], filledSize |-> 0]]
  /\ UNCHANGED <<exchange, link, lastFill, size, sync, recorded, exact, plain>>

(* getOpenOrders answers with the sizes of the exchange.                   *)
Snapshot ==
  [o \in Orders |->
     IF Open(o) THEN [size |-> PlacedSize(o), filledSize |-> order[o].filled] ELSE Absent]

(* syncFromOpenOrders, after connecting and from the reconciliation.       *)
SyncOpenOrders ==
  /\ link # "starting"
  /\ tracked' = Snapshot
  /\ plain' = FALSE
  /\ UNCHANGED <<exchange, link, placing, lastFill, size, sync, recorded, exact>>

(* syncPosition is called: by the debounce timer, or periodically.         *)
StartSync(s) ==
  /\ link # "starting"
  /\ sync[s].pc = "idle"
  /\ sync' = [sync EXCEPT ![s].pc = "asked"]
  /\ UNCHANGED <<exchange, link, placing, lastFill, tracked, size, recorded, exact, plain>>

AnswerSync(s) ==
  /\ sync[s].pc = "asked"
  /\ sync' = [sync EXCEPT ![s] = [pc |-> "answered", position |-> Truth]]
  /\ UNCHANGED <<exchange, link, placing, lastFill, tracked, size, recorded, exact, plain>>

FailSync(s) ==
  /\ sync[s].pc = "asked"
  /\ sync' = [sync EXCEPT ![s] = NoSync]
  /\ UNCHANGED <<exchange, link, placing, lastFill, tracked, size, recorded, exact, plain>>

(* Mutant: an empty answer leaves the position as it was.                  *)
ApplySyncUnlessFlat(s) ==
  /\ sync[s].pc = "answered"
  /\ size' = IF sync[s].position = 0 THEN size ELSE sync[s].position
  /\ sync' = [sync EXCEPT ![s] = NoSync]
  /\ UNCHANGED <<exchange, link, placing, lastFill, tracked, recorded, exact, plain>>

(* syncFromPosition: the answer replaces the size, whatever fills came      *)
(* meanwhile; no position is size 0.                                       *)
ApplySync(s) ==
  /\ sync[s].pc = "answered"
  /\ size' = sync[s].position
  /\ sync' = [sync EXCEPT ![s] = NoSync]
  /\ UNCHANGED <<exchange, link, placing, lastFill, tracked, recorded, exact, plain>>

(* The process dies and a new one starts, with the orders and the position  *)
(* of a successful startup sync, and without the adapter's memory.         *)
Restart ==
  /\ link # "starting"
  /\ link' = "starting"
  /\ stream' = << >>
  /\ placing' = {}
  /\ lastFill' = [o \in Orders |-> 0]
  /\ tracked' = Snapshot
  /\ size' = Truth
  /\ sync' = [s \in Syncs |-> NoSync]
  /\ exact' = FALSE
  /\ plain' = FALSE
  /\ UNCHANGED <<order, recorded>>

-----------------------------------------------------------------------------
Next ==
  \/ \E o \in Orders : Place(o) \/ Accept(o) \/ Track(o) \/ Fill(o) \/ Cancelled(o)
  \/ HandleMessage \/ Connect \/ StreamEnds \/ SyncOpenOrders \/ Restart
  \/ \E s \in Syncs : StartSync(s) \/ AnswerSync(s) \/ FailSync(s) \/ ApplySync(s)

Spec == Init /\ [][Next]_vars

(* Messages are handled, the periodic sync keeps coming, and its query does *)
(* not fail for ever.                                                      *)
FairSpec ==
  /\ Spec
  /\ WF_vars(HandleMessage) /\ WF_vars(Connect)
  /\ WF_vars(\E s \in Syncs : StartSync(s)) /\ SF_vars(\E s \in Syncs : AnswerSync(s))
  /\ \A s \in Syncs : WF_vars(ApplySync(s))

-----------------------------------------------------------------------------
Reported(o) == \A i \in DOMAIN stream : stream[i].order # o

(* ex_fill has every unit once, as soon as the messages are handled: when   *)
(* the stream leaves trades out, has no gap, and the process goes on.       *)
FillsRecordedOnce ==
  exact => \A o \in Orders :
    recorded[o] <= order[o].filled /\ (Reported(o) => recorded[o] = order[o].filled)

Untracked(o) == Open(o) /\ o \notin placing /\ tracked[o] = Absent

(* An order that is open and whose placement was answered is tracked, so    *)
(* that the planner does not place another one: partial fills never add up  *)
(* to the size the tracker has, as long as no snapshot already contains     *)
(* some, for an order whose size was not raised to the market's minimum.    *)
OpenIsTracked == plain => \A o \in Orders : ~Raised(o) => ~Untracked(o)

(* "Remove if fully filled" (order-tracker.ts:61): without a message missed *)
(* or counted twice, and without a snapshot, an open order stays tracked.   *)
(* It does not when its size was raised: a partial fill may reach the       *)
(* requested size, which is the one the tracker compares with.             *)
RemovedIfFilled == plain => \A o \in Orders : ~Untracked(o)

(* The position ends up right (4.7), although trades may be counted twice,  *)
(* messages missed, and answers overtaken by fills or by other answers.    *)
PositionConverges == <>[](size = Truth)
=============================================================================
