---------------------------- MODULE DecisionCycle ----------------------------
(***************************************************************************)
(* The executor's decision cycle with everything that can interleave: the  *)
(* ticks of tickLoop and executeTick, suspended at every await on the      *)
(* exchange; the order tracker they share; the private stream; and the     *)
(* exchange with the orders that are really live.                          *)
(*                                                                         *)
(* tickLoop has no in-flight guard: setInterval starts a tick while the    *)
(* previous one awaits a reply, so as many ticks overlap as a slow         *)
(* exchange causes.  Ticks is that number; one tick alone is the case of   *)
(* an exchange that answers within TICK_INTERVAL_MS.                       *)
(*                                                                         *)
(* An action is a stretch of code between two awaits.  Interval checks     *)
(* (x >= y - last) are flags that a timer action sets at any later moment, *)
(* so the model holds for every value of the intervals; QuoteLoop has the  *)
(* exact times.  The strategy state is reduced to what the cycle reads:    *)
(* the mode and whether its two stamps are over.                           *)
(***************************************************************************)
EXTENDS StrategyCore, ExecutionPlanner, FiniteSets

CONSTANTS
  Ticks,         \* ticks that may be in flight at once
  Slots,         \* bound: order ids in use at once on one side
  NoneOrder,     \* no order
  CallsFail,     \* may the exchange refuse calls (rate limit, other errors)?
  RepliesLost,   \* may a placement reach the exchange and still report an error?
  StartSynced,   \* did the open-order sync at startup succeed?
  Miscounts,     \* may partial fills drop an open order, as FillTracking shows?
  Stops          \* may the process be asked to stop (SIGINT, SIGTERM)?

Orders == Sides \X Slots

ASSUME NoneAssumption == NoneOrder \notin Orders
ASSUME SlotsAssumption == IsFiniteSet(Slots)
ASSUME FlagAssumption == {CallsFail, RepliesLost, StartSynced, Miscounts, Stops} \subseteq BOOLEAN

VARIABLES
  state,          \* main.ts state: mode, and whether pauseUntilMs / refreshIntervalMs are over
  decided,        \* history: mode decided by the latest tick to reach decide()
  process,        \* "running", or how it was shut down: "clean" or just "down"
  tick,           \* per tick: where it is suspended, and its local variables
  tracker,        \* OrderTracker.orders
  live,           \* external: orders open at the exchange
  failed,         \* history: has a call failed so far?
  backoff,        \* now < rateLimitUntilMs
  reconcileDue,   \* PERIODIC_RECONCILE_INTERVAL_MS since lastPeriodicReconcileMs
  verifyDue,      \* OPEN_ORDERS_SYNC_INTERVAL_MS since lastOpenOrdersSyncMs
  cancelAllAge    \* since lastCancelAllAttemptMs: under 1 s, under 30 s, or longer

strategy == <<state, decided, process>>
exchange == <<live, failed>>
timers == <<backoff, reconcileDue, verifyDue, cancelAllAge>>
vars == <<strategy, tick, tracker, exchange, timers>>

Calls == {"reconcile", "verify", "cancelAll", "cancel", "place"}
CoreState == [mode : Mode, pauseOver : BOOLEAN, quoteDue : BOOLEAN]

Action ==
  [type : {"cancel_all"}] \cup [type : {"cancel"}, order : Orders] \cup [type : {"place"}, side : Sides]

OnSide(S, s) == {o \in S : o[1] = s}

(* OrderTracker.getBidOrder and getAskOrder.                               *)
OrderOnSide(S, s) == IF OnSide(S, s) = {} THEN NoneOrder ELSE CHOOSE o \in OnSide(S, s) : TRUE

InitialState == [mode |-> "PAUSE", pauseOver |-> FALSE, quoteDue |-> TRUE]

IdleTick ==
  [pc |-> "idle", next |-> InitialState, canRefresh |-> FALSE, todo |-> << >>,
   order |-> NoneOrder, snap |-> {}, reply |-> "none"]

Init ==
  /\ state \in {s \in CoreState : s.quoteDue /\ (s.mode # "PAUSE" => s.pauseOver)}
  /\ decided = state.mode
  /\ process = "running"
  /\ tick = [t \in Ticks |-> IdleTick]
  /\ live \in {L \in SUBSET Orders : \A s \in Sides : Cardinality(OnSide(L, s)) <= 1}
  /\ tracker = IF StartSynced THEN live ELSE {}
  /\ failed = ~StartSynced
  /\ backoff = FALSE
  /\ reconcileDue = TRUE
  /\ verifyDue = TRUE
  /\ cancelAllAge = "long"

-----------------------------------------------------------------------------
(* One tick                                                                *)

(* The guardrail of executeTick: more than one order on a side.            *)
TooManyOrders(trk) == \E s \in Sides : Cardinality(OnSide(trk, s)) > 1

(* What the planner may answer for a side, whatever the order's age and the *)
(* distance of the price.                                                  *)
SidePlans(trk, s, canRefresh) ==
  {SidePlan(OnSide(trk, s) # {}, stale, far, canRefresh) : stale \in BOOLEAN, far \in BOOLEAN}

(* Mutant: the intent follows the deadline instead of the mode.            *)
IntentByDeadline(r) == IF r.next.mode = "PAUSE" /\ ~r.next.pauseOver THEN "CANCEL_ALL" ELSE "QUOTE"

Intent(r) == IF r.next.mode = "PAUSE" THEN "CANCEL_ALL" ELSE "QUOTE"

(* Guardrail and planning, against the tracker as it is after any awaits.   *)
Plan(t, r, trk) ==
  \E bidPlan \in SidePlans(trk, "buy", r.canRefresh), askPlan \in SidePlans(trk, "sell", r.canRefresh) :
    tick' = [tick EXCEPT ![t] = [r EXCEPT
      !.pc = "next",
      !.canRefresh = FALSE,
      !.reply = "none",
      !.snap = {},
      !.todo = IF TooManyOrders(trk) THEN << [type |-> "cancel_all"] >>
               ELSE PlanExecution(Intent(r), OrderOnSide(trk, "buy"), bidPlan,
                                  OrderOnSide(trk, "sell"), askPlan)]]

(* decide() on the shared state, as the tick found it.                     *)
Decision(risk) ==
  LET next == DetermineNextMode(state.mode, risk, state.pauseOver)
  IN  [mode |-> next,
       pauseOver |-> IF next = "PAUSE" THEN state.mode = "PAUSE" /\ state.pauseOver ELSE TRUE,
       quoteDue |-> next = "PAUSE" /\ state.quoteDue]

(* The timer starts a tick: state is read here and written only by Finish.  *)
StartTick(t) ==
  /\ process = "running"
  /\ tick[t].pc = "idle"
  /\ \E risk \in RiskEvaluation :
       LET r == [IdleTick EXCEPT !.next = Decision(risk), !.canRefresh = state.quoteDue]
       IN  /\ decided' = r.next.mode
           /\ IF reconcileDue /\ ~backoff
              THEN /\ reconcileDue' = FALSE
                   /\ tick' = [tick EXCEPT ![t] = [r EXCEPT !.pc = "reconcile"]]
              ELSE /\ Plan(t, r, tracker)
                   /\ UNCHANGED reconcileDue
  /\ UNCHANGED <<state, process, tracker, exchange, backoff, verifyDue, cancelAllAge>>

(* All actions are done: `state = output.nextState`.                       *)
Finish(t) ==
  /\ tick[t].pc = "next"
  /\ tick[t].todo = << >>
  /\ state' = tick[t].next
  /\ tick' = [tick EXCEPT ![t] = IdleTick]
  /\ UNCHANGED <<decided, process, tracker, exchange, timers>>

Ready(t, type) ==
  /\ tick[t].pc = "next"
  /\ tick[t].todo # << >>
  /\ Head(tick[t].todo).type = type

Goto(t, pc, order) ==
  tick' = [tick EXCEPT ![t] = [@ EXCEPT !.pc = pc, !.order = order]]

(* The tick after its current action: nothing left of the call.            *)
Resumed(t) ==
  [tick[t] EXCEPT !.pc = "next", !.todo = Tail(@), !.order = NoneOrder, !.snap = {}, !.reply = "none"]

Continue(t) == tick' = [tick EXCEPT ![t] = Resumed(t)]

(* executeAction inside the backoff window: the action is dropped.         *)
SkipAction(t) ==
  /\ backoff
  /\ \E type \in {"cancel_all", "cancel", "place"} : Ready(t, type)
  /\ Continue(t)
  /\ UNCHANGED <<strategy, tracker, exchange, timers>>

CancelAllDue(haveOrders) == cancelAllAge = "long" \/ (haveOrders /\ cancelAllAge = "second")

(* The throttle of cancel_all, and the attempt itself.                     *)
TryCancelAll(t, haveOrders) ==
  IF CancelAllDue(haveOrders)
  THEN /\ cancelAllAge' = "recent"
       /\ tick' = [tick EXCEPT ![t] = [@ EXCEPT !.pc = "cancelAll", !.snap = {}, !.reply = "none"]]
  ELSE /\ Continue(t)
       /\ UNCHANGED cancelAllAge

StartCancelAll(t) ==
  /\ ~backoff
  /\ Ready(t, "cancel_all")
  /\ IF tracker = {} /\ verifyDue
     THEN /\ verifyDue' = FALSE
          /\ Goto(t, "verify", NoneOrder)
          /\ UNCHANGED cancelAllAge
     ELSE /\ TryCancelAll(t, tracker # {})
          /\ UNCHANGED verifyDue
  /\ UNCHANGED <<strategy, tracker, exchange, backoff, reconcileDue>>

StartCancel(t) ==
  /\ ~backoff
  /\ Ready(t, "cancel")
  /\ Goto(t, "cancel", Head(tick[t].todo).order)
  /\ UNCHANGED <<strategy, tracker, exchange, timers>>

(* Order ids still referred to somewhere.  generateClientOrderId never      *)
(* repeats an id; here an id may be used again once nothing refers to it,   *)
(* and with all Slots in use the exchange refuses the placement.            *)
InUse ==
  live \cup tracker
    \cup UNION {tick[t].snap \cup {tick[t].order} : t \in Ticks}
    \cup {a.order : a \in {b \in UNION {{tick[t].todo[i] : i \in DOMAIN tick[t].todo} : t \in Ticks} :
                             b.type = "cancel"}}

StartPlace(t) ==
  /\ ~backoff
  /\ Ready(t, "place")
  /\ LET free == OnSide(Orders, Head(tick[t].todo).side) \ InUse
     IN  \E o \in IF free = {} THEN {NoneOrder} ELSE free : Goto(t, "place", o)
  /\ UNCHANGED <<strategy, tracker, exchange, timers>>

-----------------------------------------------------------------------------
(* Replies, each processed with the code that follows the await.           *)

Replied(t, call) == tick[t].pc = call /\ tick[t].reply # "none"

NoteRateLimit(t) == backoff' = (backoff \/ tick[t].reply = "rateLimit")

(* Mutant: reconciliation drops what is gone and adds nothing.             *)
ReconcileDropping(t) ==
  /\ Replied(t, "reconcile")
  /\ tracker' = IF tick[t].reply = "ok" THEN tracker \cap tick[t].snap ELSE tracker
  /\ NoteRateLimit(t)
  /\ Plan(t, tick[t], tracker')
  /\ UNCHANGED <<strategy, exchange, reconcileDue, verifyDue, cancelAllAge>>

(* Periodic reconciliation: the snapshot replaces the tracker if the two    *)
(* differ, and planning goes on against the result.                        *)
ResumeReconcile(t) ==
  /\ Replied(t, "reconcile")
  /\ tracker' = IF tick[t].reply = "ok" THEN tick[t].snap ELSE tracker
  /\ NoteRateLimit(t)
  /\ Plan(t, tick[t], tracker')
  /\ UNCHANGED <<strategy, exchange, reconcileDue, verifyDue, cancelAllAge>>

(* The check for unknown open orders inside cancel_all.  Its errors are     *)
(* ignored, a rate limit too.                                              *)
ResumeVerify(t) ==
  LET found == tick[t].reply = "ok" /\ tick[t].snap # {}
  IN  /\ Replied(t, "verify")
      /\ tracker' = IF found THEN tick[t].snap ELSE tracker
      /\ TryCancelAll(t, found)
      /\ UNCHANGED <<strategy, exchange, backoff, reconcileDue, verifyDue>>

ResumeCancelAll(t) ==
  /\ Replied(t, "cancelAll")
  /\ tracker' = IF tick[t].reply = "ok" THEN {} ELSE tracker
  /\ NoteRateLimit(t)
  /\ Continue(t)
  /\ UNCHANGED <<strategy, exchange, reconcileDue, verifyDue, cancelAllAge>>

(* Mutant: the order leaves the tracker also when its cancel failed.       *)
ResumeCancelUnchecked(t) ==
  /\ Replied(t, "cancel")
  /\ tracker' = tracker \ {tick[t].order}
  /\ NoteRateLimit(t)
  /\ Continue(t)
  /\ UNCHANGED <<strategy, exchange, reconcileDue, verifyDue, cancelAllAge>>

ResumeCancel(t) ==
  /\ Replied(t, "cancel")
  /\ tracker' = IF tick[t].reply = "ok" THEN tracker \ {tick[t].order} ELSE tracker
  /\ NoteRateLimit(t)
  /\ Continue(t)
  /\ UNCHANGED <<strategy, exchange, reconcileDue, verifyDue, cancelAllAge>>

(* Mutant: the placed order is left for the stream to report.              *)
ResumePlaceUntracked(t) ==
  /\ Replied(t, "place")
  /\ NoteRateLimit(t)
  /\ Continue(t)
  /\ UNCHANGED <<strategy, tracker, exchange, reconcileDue, verifyDue, cancelAllAge>>

(* The order enters the tracker only now, whatever has become of it.       *)
ResumePlace(t) ==
  /\ Replied(t, "place")
  /\ tracker' = IF tick[t].reply = "ok" THEN tracker \cup {tick[t].order} ELSE tracker
  /\ NoteRateLimit(t)
  /\ Continue(t)
  /\ UNCHANGED <<strategy, exchange, reconcileDue, verifyDue, cancelAllAge>>

-----------------------------------------------------------------------------
(* The exchange and the private stream                                     *)

Reply(t, reply, snap) ==
  tick' = [tick EXCEPT ![t] = [@ EXCEPT !.reply = reply, !.snap = snap]]

Requested(t, call) == tick[t].pc = call /\ tick[t].reply = "none"

AnswerOpenOrders(t) ==
  /\ Requested(t, "reconcile") \/ Requested(t, "verify")
  /\ Reply(t, "ok", live)
  /\ UNCHANGED <<strategy, tracker, exchange, timers>>

AcceptCancelAll(t) ==
  /\ Requested(t, "cancelAll")
  /\ live' = {}
  /\ Reply(t, "ok", {})
  /\ UNCHANGED <<strategy, tracker, failed, timers>>

AcceptCancel(t) ==
  /\ Requested(t, "cancel")
  /\ tick[t].order \in live
  /\ live' = live \ {tick[t].order}
  /\ Reply(t, "ok", {})
  /\ UNCHANGED <<strategy, tracker, failed, timers>>

(* The order to cancel is not open any more.                               *)
RefuseCancel(t) ==
  /\ Requested(t, "cancel")
  /\ tick[t].order \notin live
  /\ Reply(t, "error", {})
  /\ UNCHANGED <<strategy, tracker, exchange, timers>>

AcceptPlace(t) ==
  /\ Requested(t, "place")
  /\ tick[t].order # NoneOrder
  /\ live' = live \cup {tick[t].order}
  /\ \/ Reply(t, "ok", {}) /\ UNCHANGED failed
     \/ RepliesLost /\ Reply(t, "error", {}) /\ failed' = TRUE
  /\ UNCHANGED <<strategy, tracker, timers>>

(* The exchange refuses a post-only order that would cross; the adapter     *)
(* refuses a size or price that rounds to nothing.                         *)
RefusePlace(t) ==
  /\ Requested(t, "place")
  /\ Reply(t, "error", {})
  /\ UNCHANGED <<strategy, tracker, exchange, timers>>

(* Any call may fail without effect.                                       *)
FailCall(t) ==
  /\ CallsFail
  /\ \E call \in Calls : Requested(t, call)
  /\ \E reply \in {"rateLimit", "error"} : Reply(t, reply, {})
  /\ failed' = TRUE
  /\ UNCHANGED <<strategy, tracker, live, timers>>

(* An order is filled completely, or cancelled from outside.               *)
OrderEnds(o) ==
  /\ o \in live
  /\ live' = live \ {o}
  /\ UNCHANGED <<strategy, tick, tracker, failed, timers>>

(* updateFromFill of a complete fill, or updateFromOrderEvent of a terminal *)
(* status, at any time after the order ended, or never: the stream may be   *)
(* late, and once closed it is not reopened.  Before the order is in the    *)
(* tracker the event is ignored.                                           *)
DeliverEvent(o) ==
  /\ o \in tracker \ live
  /\ tracker' = tracker \ {o}
  /\ UNCHANGED <<strategy, tick, exchange, timers>>

(* updateFromFill of an order that is still open: its partial fills add up  *)
(* to the size the tracker has, because they were counted twice or because  *)
(* the adapter raised the size at the exchange.                            *)
MiscountFills(o) ==
  /\ Miscounts
  /\ o \in tracker \cap live
  /\ tracker' = tracker \ {o}
  /\ UNCHANGED <<strategy, tick, exchange, timers>>

-----------------------------------------------------------------------------
(* Shutdown                                                                *)

(* A signal clears the intervals and sends cancelAllOrders.  Both are one   *)
(* step, taken when the exchange handles the call: what ticks do between    *)
(* the two, they do in the model before the signal.  Nobody looks at the    *)
(* answer or waits for ticks in flight, and the process ends either way.    *)
(* "clean" records that the call succeeded with no tick in flight.          *)
Shutdown ==
  /\ Stops
  /\ process = "running"
  /\ \/ /\ live' = {}
        /\ process' = IF \A t \in Ticks : tick[t].pc = "idle" THEN "clean" ELSE "down"
        /\ UNCHANGED failed
     \/ /\ CallsFail
        /\ process' = "down"
        /\ failed' = TRUE
        /\ UNCHANGED live
  /\ UNCHANGED <<state, decided, tick, tracker, timers>>

-----------------------------------------------------------------------------
(* Time passes: one interval is over.  The flags that only StartTick reads  *)
(* stand still once no tick starts any more.                               *)

BackoffEnds ==
  /\ backoff
  /\ backoff' = FALSE
  /\ UNCHANGED <<strategy, tick, tracker, exchange, reconcileDue, verifyDue, cancelAllAge>>

ReconcileTimer ==
  /\ process = "running" /\ ~reconcileDue
  /\ reconcileDue' = TRUE
  /\ UNCHANGED <<strategy, tick, tracker, exchange, backoff, verifyDue, cancelAllAge>>

VerifyTimer ==
  /\ ~verifyDue
  /\ verifyDue' = TRUE
  /\ UNCHANGED <<strategy, tick, tracker, exchange, backoff, reconcileDue, cancelAllAge>>

CancelAllTimer ==
  /\ cancelAllAge # "long"
  /\ cancelAllAge' = IF cancelAllAge = "recent" THEN "second" ELSE "long"
  /\ UNCHANGED <<strategy, tick, tracker, exchange, backoff, reconcileDue, verifyDue>>

PauseTimer ==
  /\ process = "running" /\ ~state.pauseOver
  /\ state' = [state EXCEPT !.pauseOver = TRUE]
  /\ UNCHANGED <<decided, process, tick, tracker, exchange, timers>>

QuoteTimer ==
  /\ process = "running" /\ ~state.quoteDue
  /\ state' = [state EXCEPT !.quoteDue = TRUE]
  /\ UNCHANGED <<decided, process, tick, tracker, exchange, timers>>

-----------------------------------------------------------------------------
StartAction(t) == SkipAction(t) \/ StartCancelAll(t) \/ StartCancel(t) \/ StartPlace(t)

Resume(t) ==
  ResumeReconcile(t) \/ ResumeVerify(t) \/ ResumeCancelAll(t) \/ ResumeCancel(t) \/ ResumePlace(t)

Succeed(t) == AnswerOpenOrders(t) \/ AcceptCancelAll(t) \/ AcceptCancel(t) \/ AcceptPlace(t)

Answer(t) == Succeed(t) \/ RefuseCancel(t) \/ RefusePlace(t) \/ FailCall(t)

Timer == BackoffEnds \/ ReconcileTimer \/ VerifyTimer \/ CancelAllTimer \/ PauseTimer \/ QuoteTimer

TickStep(t) == StartTick(t) \/ StartAction(t) \/ Finish(t) \/ Resume(t) \/ Answer(t)

Next ==
  \/ \E t \in Ticks : TickStep(t)
  \/ \E o \in Orders : OrderEnds(o) \/ DeliverEvent(o) \/ MiscountFills(o)
  \/ Timer \/ Shutdown

Spec == Init /\ [][Next]_vars

(* The event loop runs ticks, continuations and timers; every call is       *)
(* answered in the end (at most one of the steps of a tick is possible at   *)
(* a time), and a call that is repeated does not fail for ever.             *)
(* Nothing is assumed of fills, of the stream or of the risk inputs.        *)
Fairness ==
  /\ \A t \in Ticks :
       /\ WF_vars(TickStep(t))
       /\ SF_vars(AnswerOpenOrders(t)) /\ SF_vars(AcceptCancelAll(t))
  /\ WF_vars(BackoffEnds) /\ WF_vars(ReconcileTimer) /\ WF_vars(VerifyTimer) /\ WF_vars(CancelAllTimer)

FairSpec == Spec /\ Fairness
-----------------------------------------------------------------------------
Placing(o) == \E t \in Ticks : tick[t].pc = "place" /\ tick[t].order = o

(* Every live order is tracked or its placement is still awaited, so the    *)
(* guardrail and the planner never miss one: over failing calls, fills,     *)
(* late events and reconciliation, when ticks do not overlap and no fill is *)
(* counted twice.                                                          *)
TrackerCoversLive == \A o \in live : o \in tracker \/ Placing(o)

(* "We expect at most 1 bid + 1 ask live" (the comment on the guardrail):   *)
(* so it is until a call fails, over fills, late events and reconciliation. *)
(* A failed cancel is followed by the placement of its replacement all the  *)
(* same, and then the guardrail keeps the side at two.                     *)
LiveOrdersBounded ==
  \A s \in Sides : Cardinality(OnSide(live, s)) <= IF failed THEN 2 ELSE 1

(* Requirement 5.6: PAUSE is left for DEFENSIVE, never straight for NORMAL. *)
PauseExitsToDefensive ==
  [][(state.mode = "PAUSE" /\ state'.mode # "PAUSE") => state'.mode = "DEFENSIVE"]_vars

(* The book gets empty and stays so in both cases in which the executor     *)
(* wants it: while the decision stays PAUSE in a running process            *)
(* (requirements 4.5 and 7.5), although calls fail, replies are lost, the   *)
(* startup sync failed or the stream is down; and after a shutdown whose    *)
(* cancel succeeded with no tick in flight.                                *)
EventuallyFlat ==
  <>[]((decided = "PAUSE" /\ process = "running") \/ process = "clean") => <>[](live = {})

(* Once the exchange no longer limits the rate, no order stays live and     *)
(* missing in the tracker for ever, nor gone and still tracked (4.11), as   *)
(* long as the process runs.                                               *)
DriftRepaired ==
  <>[](~backoff /\ process = "running") =>
    \A o \in Orders : []<>(o \notin live \ tracker) /\ []<>(o \notin tracker \ live)
=============================================================================
