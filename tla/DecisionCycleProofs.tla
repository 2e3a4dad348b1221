------------------------ MODULE DecisionCycleProofs -------------------------
(***************************************************************************)
(* Proofs about the decision cycle when ticks do not overlap: for any       *)
(* number of order ids, with calls that fail or not, over fills, late       *)
(* events, reconciliation and shutdown.                                    *)
(***************************************************************************)
EXTENDS DecisionCycle, FiniteSetTheorems, TLAPS

(* An exchange that answers within TICK_INTERVAL_MS and never takes an      *)
(* order that it reports as refused, a startup sync that succeeded, and     *)
(* fills that are counted once.  Each of the four is needed: README.md says *)
(* what happens without it.                                                *)
CalmExchange ==
  /\ \A t, other \in Ticks : t = other
  /\ ~RepliesLost /\ ~Miscounts /\ StartSynced

Pcs == {"idle", "next"} \cup Calls
Replies == {"none", "ok", "error", "rateLimit"}
Locals ==
  [pc : Pcs, next : CoreState, canRefresh : BOOLEAN, todo : Seq(Action),
   order : Orders \cup {NoneOrder}, snap : SUBSET Orders, reply : Replies]

TypeOK ==
  /\ state \in CoreState
  /\ tick \in [Ticks -> Locals]
  /\ tracker \in SUBSET Orders
  /\ live \in SUBSET Orders
  /\ failed \in BOOLEAN
  /\ backoff \in BOOLEAN

IsPlace(a, s) == a.type = "place" /\ a.side = s

(* The call a tick waits for is the first of what it has to do, and it      *)
(* places at most one order on a side.                                     *)
Shape(r) ==
  /\ r.pc \in {"idle", "next"} => r.reply = "none"
  /\ r.pc \in {"idle", "reconcile"} => r.todo = << >>
  /\ r.pc \in Calls \ {"reconcile"} => r.todo # << >>
  /\ r.pc \in {"verify", "cancelAll"} => Head(r.todo).type = "cancel_all"
  /\ r.pc = "cancel" => Head(r.todo).type = "cancel" /\ r.order = Head(r.todo).order
  /\ r.pc = "place" =>
       /\ Head(r.todo).type = "place"
       /\ r.order # NoneOrder => r.order[1] = Head(r.todo).side
       /\ r.reply = "ok" => r.order # NoneOrder
  /\ \A i, k \in DOMAIN r.todo, s \in Sides :
       i < k /\ IsPlace(r.todo[i], s) => ~IsPlace(r.todo[k], s)

(* What a reply says about the orders that are live is true until the tick  *)
(* goes on, since nothing else places orders.                              *)
ReplyTrue(r) ==
  /\ r.pc \in {"reconcile", "verify"} /\ r.reply = "ok" => live \subseteq r.snap
  /\ r.pc = "cancelAll" /\ r.reply = "ok" => live = {}
  /\ r.pc = "cancel" /\ (r.reply = "ok" \/ (r.reply = "error" /\ ~failed)) => r.order \notin live
  /\ r.pc = "place" /\ r.reply # "ok" => r.order \notin live
  /\ r.reply = "rateLimit" => failed

AtMostOne(S) == \A a, b \in S : a = b
AtMostTwo(S) == \A a, b, c \in S : a = b \/ b = c \/ a = c

(* The first action has been carried out, and only its reply is awaited.    *)
Done(r, i) == i = 1 /\ r.pc \in {"place", "cancel"} /\ r.reply # "none"

WillPlace(r, i, s) == i \in DOMAIN r.todo /\ ~Done(r, i) /\ IsPlace(r.todo[i], s)

WillCancel(r, k, o) ==
  k \in DOMAIN r.todo /\ ~Done(r, k) /\ r.todo[k].type = "cancel" /\ r.todo[k].order = o

(* There is room for what the tick still places: one order on the side at   *)
(* most, and as long as no call has failed none but one that is cancelled   *)
(* before.                                                                 *)
Room(r) ==
  \A s \in Sides, i \in DOMAIN r.todo : WillPlace(r, i, s) =>
    /\ AtMostOne(OnSide(live, s))
    /\ ~failed =>
         \/ OnSide(live, s) = {}
         \/ \E o \in Orders, k \in DOMAIN r.todo :
              k < i /\ WillCancel(r, k, o) /\ OnSide(live, s) \subseteq {o}

SidesBounded ==
  \A s \in Sides : AtMostTwo(OnSide(live, s)) /\ (~failed => AtMostOne(OnSide(live, s)))

(* The inductive invariant behind TrackerCoversLive and LiveOrdersBounded.  *)
IInv ==
  /\ TypeOK
  /\ \A t \in Ticks : Shape(tick[t]) /\ ReplyTrue(tick[t]) /\ Room(tick[t])
  /\ TrackerCoversLive
  /\ SidesBounded
  /\ backoff => failed
-----------------------------------------------------------------------------
(* Counting what is on a side                                              *)

LEMMA SideIsFinite ==
  ASSUME NEW S \in SUBSET Orders, NEW s \in Sides
  PROVE  IsFiniteSet(OnSide(S, s))
<1>1. IsFiniteSet(Sides)
  <2>1. IsFiniteSet({"buy"}) /\ IsFiniteSet({"sell"})
    BY FS_Singleton
  <2>2. Sides = {"buy"} \cup {"sell"}
    BY DEF Sides
  <2>3. QED
    BY <2>1, <2>2, FS_Union
<1>2. IsFiniteSet(Orders)
  BY <1>1, SlotsAssumption, FS_Product DEF Orders
<1>3. QED
  BY <1>2, FS_Subset DEF OnSide

LEMMA CountFacts ==
  ASSUME NEW S, IsFiniteSet(S)
  PROVE  /\ Cardinality(S) <= 1 <=> AtMostOne(S)
         /\ AtMostTwo(S) => Cardinality(S) <= 2
<1>1. Cardinality(S) \in Nat
  BY FS_CardinalityType
<1>2. ASSUME Cardinality(S) <= 1 PROVE AtMostOne(S)
  <2>1. Cardinality(S) = 0 \/ Cardinality(S) = 1
    BY <1>1, <1>2
  <2>2. S = {} \/ \E x : S = {x}
    BY <2>1, FS_EmptySet, FS_Singleton
  <2>3. QED
    BY <2>2 DEF AtMostOne
<1>3. ASSUME AtMostOne(S) PROVE Cardinality(S) <= 1
  <2>1. S = {} \/ \E x : S = {x}
    BY <1>3 DEF AtMostOne
  <2>2. Cardinality(S) = 0 \/ Cardinality(S) = 1
    BY <2>1, FS_EmptySet, FS_Singleton
  <2>3. QED
    BY <2>2
<1>4. ASSUME AtMostTwo(S) PROVE Cardinality(S) <= 2
  <2>1. CASE AtMostOne(S)
    BY <1>1, <1>3, <2>1
  <2>2. CASE ~AtMostOne(S)
    <3>1. PICK a \in S, b \in S : a # b
      BY <2>2 DEF AtMostOne
    <3>2. S = {a} \cup {b}
      BY <1>4, <3>1 DEF AtMostTwo
    <3>3. IsFiniteSet({a}) /\ Cardinality({a}) = 1
      BY FS_Singleton
    <3>4. Cardinality({a} \cup {b}) = Cardinality({a}) + 1
      BY <3>1, <3>3, FS_AddElement
    <3>5. QED
      BY <3>2, <3>3, <3>4
  <2>3. QED
    BY <2>1, <2>2
<1>5. QED
  BY <1>2, <1>3, <1>4
-----------------------------------------------------------------------------
(* What the planner makes of a tracker                                     *)

(* A side is placed on when it is empty, or after its order is cancelled.   *)
LEMMA SideActionsFacts ==
  ASSUME NEW s \in Sides, NEW o, NEW plan \in {"replace", "place", "keep"}, plan = "replace" => o \in Orders,
         NEW actions, actions = SideActions(s, o, plan)
  PROVE  /\ actions \in Seq(Action)
         /\ \A i, k \in DOMAIN actions, x \in Sides : i < k /\ IsPlace(actions[i], x) => ~IsPlace(actions[k], x)
         /\ \A i \in DOMAIN actions, x \in Sides : IsPlace(actions[i], x) =>
              /\ x = s
              /\ \/ plan = "place"
                 \/ /\ plan = "replace"
                    /\ \E k \in DOMAIN actions : k < i /\ actions[k].type = "cancel" /\ actions[k].order = o
<1>1. CASE plan = "replace"
  <2>1. /\ [type |-> "cancel", order |-> o] \in Action /\ [type |-> "place", side |-> s] \in Action
    BY <1>1 DEF Action
  <2>2. actions = << [type |-> "cancel", order |-> o], [type |-> "place", side |-> s] >>
    BY <1>1 DEF SideActions
  <2>3. /\ actions \in Seq(Action) /\ DOMAIN actions = {1, 2}
        /\ actions[1] = [type |-> "cancel", order |-> o] /\ actions[2] = [type |-> "place", side |-> s]
    BY <2>1, <2>2
  <2>4. QED
    BY <1>1, <2>3 DEF IsPlace
<1>2. CASE plan = "place"
  <2>1. [type |-> "place", side |-> s] \in Action
    BY DEF Action
  <2>2. actions = << [type |-> "place", side |-> s] >>
    BY <1>2 DEF SideActions
  <2>3. actions \in Seq(Action) /\ DOMAIN actions = {1} /\ actions[1] = [type |-> "place", side |-> s]
    BY <2>1, <2>2
  <2>4. QED
    BY <1>2, <2>3 DEF IsPlace
<1>3. CASE plan = "keep"
  BY <1>3 DEF SideActions
<1>4. QED
  BY <1>1, <1>2, <1>3

LEMMA SidePlanFacts ==
  ASSUME NEW trk \in SUBSET Orders, NEW s \in Sides, NEW canRefresh \in BOOLEAN,
         NEW plan \in SidePlans(trk, s, canRefresh)
  PROVE  /\ plan \in {"replace", "place", "keep"}
         /\ plan = "place" => OnSide(trk, s) = {}
         /\ plan = "replace" => OrderOnSide(trk, s) \in OnSide(trk, s) /\ OrderOnSide(trk, s) \in Orders
<1>1. /\ plan \in {"replace", "place", "keep"}
      /\ plan = "place" => OnSide(trk, s) = {}
      /\ plan = "replace" => OnSide(trk, s) # {}
  BY DEF SidePlans, SidePlan
<1>2. OnSide(trk, s) # {} => OrderOnSide(trk, s) \in OnSide(trk, s)
  BY DEF OrderOnSide
<1>3. QED
  BY <1>1, <1>2 DEF OnSide

Planned(todo, trk) ==
  /\ todo \in Seq(Action)
  /\ \A i, k \in DOMAIN todo, s \in Sides : i < k /\ IsPlace(todo[i], s) => ~IsPlace(todo[k], s)
  /\ \A s \in Sides, i \in DOMAIN todo : IsPlace(todo[i], s) =>
       /\ AtMostOne(OnSide(trk, s))
       /\ \/ OnSide(trk, s) = {}
          \/ \E o \in Orders, k \in DOMAIN todo :
               k < i /\ todo[k].type = "cancel" /\ todo[k].order = o /\ OnSide(trk, s) \subseteq {o}

LEMMA CancelAllPlanned ==
  ASSUME NEW trk
  PROVE  Planned(<< [type |-> "cancel_all"] >>, trk)
<1>1. [type |-> "cancel_all"] \in Action
  BY DEF Action
<1> DEFINE todo == << [type |-> "cancel_all"] >>
<1>2. todo \in Seq(Action) /\ DOMAIN todo = {1} /\ todo[1].type = "cancel_all"
  BY <1>1
<1> HIDE DEF todo
<1>3. Planned(todo, trk)
  BY <1>2 DEF Planned, IsPlace
<1>4. QED
  BY <1>3 DEF todo

LEMMA PlanFacts ==
  ASSUME NEW trk \in SUBSET Orders, NEW canRefresh \in BOOLEAN,
         NEW bidPlan \in SidePlans(trk, "buy", canRefresh), NEW askPlan \in SidePlans(trk, "sell", canRefresh),
         ~TooManyOrders(trk), NEW intent
  PROVE  Planned(PlanExecution(intent, OrderOnSide(trk, "buy"), bidPlan, OrderOnSide(trk, "sell"), askPlan), trk)
<1>1. CASE intent = "CANCEL_ALL"
  BY <1>1, CancelAllPlanned DEF PlanExecution
<1>2. CASE intent # "CANCEL_ALL"
  <2>1. "buy" \in Sides /\ "sell" \in Sides /\ Sides = {"buy", "sell"}
    BY DEF Sides
  <2>2. \A s \in Sides : AtMostOne(OnSide(trk, s))
    <3>1. ASSUME NEW s \in Sides PROVE AtMostOne(OnSide(trk, s))
      <4>1. IsFiniteSet(OnSide(trk, s)) /\ Cardinality(OnSide(trk, s)) \in Nat
        BY SideIsFinite, FS_CardinalityType
      <4>2. Cardinality(OnSide(trk, s)) <= 1
        BY <4>1 DEF TooManyOrders
      <4>3. QED
        BY <4>1, <4>2, CountFacts
    <3>2. QED
      BY <3>1
  <2>3. PICK bids, asks :
          /\ bids = SideActions("buy", OrderOnSide(trk, "buy"), bidPlan)
          /\ asks = SideActions("sell", OrderOnSide(trk, "sell"), askPlan)
    OBVIOUS
  <2>4. PICK bid, ask : bid = OrderOnSide(trk, "buy") /\ ask = OrderOnSide(trk, "sell")
    OBVIOUS
  <2>5. /\ bidPlan \in {"replace", "place", "keep"} /\ askPlan \in {"replace", "place", "keep"}
        /\ bidPlan = "place" => OnSide(trk, "buy") = {}
        /\ bidPlan = "replace" => bid \in OnSide(trk, "buy") /\ bid \in Orders
        /\ askPlan = "place" => OnSide(trk, "sell") = {}
        /\ askPlan = "replace" => ask \in OnSide(trk, "sell") /\ ask \in Orders
    BY <2>1, <2>4, SidePlanFacts
  <2>6. /\ bids \in Seq(Action)
        /\ \A i, k \in DOMAIN bids, x \in Sides : i < k /\ IsPlace(bids[i], x) => ~IsPlace(bids[k], x)
        /\ \A i \in DOMAIN bids, x \in Sides : IsPlace(bids[i], x) =>
             /\ x = "buy"
             /\ \/ bidPlan = "place"
                \/ /\ bidPlan = "replace"
                   /\ \E k \in DOMAIN bids : k < i /\ bids[k].type = "cancel" /\ bids[k].order = bid
    <3>1. bids = SideActions("buy", bid, bidPlan)
      BY <2>3, <2>4
    <3>2. "buy" \in Sides /\ bidPlan \in {"replace", "place", "keep"} /\ (bidPlan = "replace" => bid \in Orders)
      BY <2>1, <2>5
    <3>3. QED
      BY <3>1, <3>2, SideActionsFacts
  <2>7. /\ asks \in Seq(Action)
        /\ \A i, k \in DOMAIN asks, x \in Sides : i < k /\ IsPlace(asks[i], x) => ~IsPlace(asks[k], x)
        /\ \A i \in DOMAIN asks, x \in Sides : IsPlace(asks[i], x) =>
             /\ x = "sell"
             /\ \/ askPlan = "place"
                \/ /\ askPlan = "replace"
                   /\ \E k \in DOMAIN asks : k < i /\ asks[k].type = "cancel" /\ asks[k].order = ask
    <3>1. asks = SideActions("sell", ask, askPlan)
      BY <2>3, <2>4
    <3>2. "sell" \in Sides /\ askPlan \in {"replace", "place", "keep"} /\ (askPlan = "replace" => ask \in Orders)
      BY <2>1, <2>5
    <3>3. QED
      BY <3>1, <3>2, SideActionsFacts
  <2>8. PICK todo : todo = bids \o asks
    OBVIOUS
  <2>9. /\ todo \in Seq(Action) /\ Len(bids) \in Nat
        /\ DOMAIN bids = 1 .. Len(bids) /\ DOMAIN asks = 1 .. Len(asks)
        /\ \A i \in DOMAIN todo : i \in Nat /\
             \/ i \in DOMAIN bids /\ todo[i] = bids[i]
             \/ i \notin DOMAIN bids /\ i > Len(bids) /\ i - Len(bids) \in DOMAIN asks /\ todo[i] = asks[i - Len(bids)]
        /\ \A i \in DOMAIN bids : i \in DOMAIN todo /\ todo[i] = bids[i]
        /\ \A i \in DOMAIN asks : i + Len(bids) \in DOMAIN todo /\ todo[i + Len(bids)] = asks[i]
    BY <2>6, <2>7, <2>8
  <2>10. ASSUME NEW i \in DOMAIN todo, NEW k \in DOMAIN todo, NEW s \in Sides, i < k, IsPlace(todo[i], s)
         PROVE  ~IsPlace(todo[k], s)
    <3>1. CASE i \in DOMAIN bids /\ k \in DOMAIN bids
      BY <2>6, <2>9, <2>10, <3>1
    <3>2. CASE i \notin DOMAIN bids /\ k \notin DOMAIN bids
      BY <2>7, <2>9, <2>10, <3>2
    <3>3. CASE i \in DOMAIN bids /\ k \notin DOMAIN bids
      BY <2>6, <2>7, <2>9, <2>10, <3>3
    <3>4. CASE i \notin DOMAIN bids /\ k \in DOMAIN bids
      BY <2>9, <2>10, <3>4
    <3>5. QED
      BY <3>1, <3>2, <3>3, <3>4
  <2>11. ASSUME NEW s \in Sides, NEW i \in DOMAIN todo, IsPlace(todo[i], s)
         PROVE  \/ OnSide(trk, s) = {}
                \/ \E o \in Orders, k \in DOMAIN todo :
                     k < i /\ todo[k].type = "cancel" /\ todo[k].order = o /\ OnSide(trk, s) \subseteq {o}
    <3>1. CASE i \in DOMAIN bids
      <4>1. s = "buy" /\ (bidPlan = "replace" =>
              \E k \in DOMAIN todo : k < i /\ todo[k].type = "cancel" /\ todo[k].order = bid)
        BY <2>6, <2>9, <2>11, <3>1
      <4>2. bidPlan = "place" \/ bidPlan = "replace"
        BY <2>6, <2>9, <2>11, <3>1
      <4>3. bidPlan = "replace" => OnSide(trk, s) \subseteq {bid}
        BY <2>2, <2>5, <4>1 DEF AtMostOne
      <4>4. QED
        BY <2>5, <4>1, <4>2, <4>3
    <3>2. CASE i \notin DOMAIN bids
      <4>1. i - Len(bids) \in DOMAIN asks /\ IsPlace(asks[i - Len(bids)], s)
        BY <2>9, <2>11, <3>2
      <4>2. s = "sell" /\ (askPlan = "place" \/ askPlan = "replace")
        BY <2>7, <4>1
      <4>3. ASSUME askPlan = "replace"
            PROVE  \E k \in DOMAIN todo : k < i /\ todo[k].type = "cancel" /\ todo[k].order = ask
        <5>1. PICK k \in DOMAIN asks : k < i - Len(bids) /\ asks[k].type = "cancel" /\ asks[k].order = ask
          BY <2>7, <4>1, <4>3
        <5>2. k + Len(bids) \in DOMAIN todo /\ todo[k + Len(bids)] = asks[k] /\ k + Len(bids) < i
          BY <2>9, <4>1, <5>1
        <5>3. QED
          BY <5>1, <5>2
      <4>4. askPlan = "replace" => OnSide(trk, s) \subseteq {ask}
        BY <2>2, <2>5, <4>2 DEF AtMostOne
      <4>5. QED
        BY <2>5, <4>2, <4>3, <4>4
    <3>3. QED
      BY <3>1, <3>2
  <2>12. Planned(todo, trk)
    BY <2>2, <2>9, <2>10, <2>11 DEF Planned
  <2>13. QED
    BY <1>2, <2>3, <2>8, <2>12 DEF PlanExecution
<1>3. QED
  BY <1>1, <1>2
-----------------------------------------------------------------------------
LEMMA InitIInv ==
  ASSUME CalmExchange, Init
  PROVE  IInv
<1>1. live \in SUBSET Orders /\ tracker = live /\ failed = FALSE /\ backoff = FALSE
  BY DEF Init, CalmExchange
<1>2. tick = [t \in Ticks |-> IdleTick] /\ state \in CoreState
  BY DEF Init
<1>3. IdleTick \in Locals
  <2>1. << >> \in Seq(Action)
    OBVIOUS
  <2>2. InitialState \in CoreState
    BY DEF InitialState, CoreState, Mode
  <2>3. QED
    BY <2>1, <2>2 DEF IdleTick, Locals, Pcs, Calls, Replies
<1>4. TypeOK
  BY <1>1, <1>2, <1>3 DEF TypeOK
<1>5. Shape(IdleTick) /\ ReplyTrue(IdleTick) /\ Room(IdleTick)
  BY DEF IdleTick, Shape, ReplyTrue, Room, Calls
<1>6. ASSUME NEW s \in Sides PROVE AtMostOne(OnSide(live, s))
  <2>1. Cardinality(OnSide(live, s)) <= 1
    BY DEF Init
  <2>2. QED
    BY <1>1, <2>1, SideIsFinite, CountFacts
<1>7. SidesBounded
  BY <1>6 DEF SidesBounded, AtMostOne, AtMostTwo
<1>8. QED
  BY <1>1, <1>2, <1>4, <1>5, <1>7 DEF IInv, TrackerCoversLive

(* Orders only end, and calls may fail: what was promised still holds.      *)
LEMMA OutsideStep ==
  ASSUME IInv, live' \in SUBSET live, failed' \in BOOLEAN, failed => failed',
         UNCHANGED tick, tracker' \in SUBSET Orders, live' \cap tracker \subseteq tracker',
         state' \in CoreState, backoff' \in BOOLEAN, backoff' => failed'
  PROVE  IInv'
<1>1. TypeOK'
  BY DEF IInv, TypeOK
<1>2. \A s \in Sides : OnSide(live', s) \subseteq OnSide(live, s)
  BY DEF OnSide
<1>3. ASSUME NEW t \in Ticks PROVE Shape(tick[t]) /\ ReplyTrue(tick[t])' /\ Room(tick[t])'
  <2>1. Shape(tick[t]) /\ ReplyTrue(tick[t]) /\ Room(tick[t])
    BY DEF IInv
  <2>2. ReplyTrue(tick[t])'
    BY <2>1 DEF ReplyTrue
  <2>3. ASSUME NEW s \in Sides, NEW i \in DOMAIN tick[t].todo, WillPlace(tick[t], i, s)
        PROVE  /\ AtMostOne(OnSide(live', s))
               /\ ~failed' =>
                    \/ OnSide(live', s) = {}
                    \/ \E o \in Orders, k \in DOMAIN tick[t].todo :
                         k < i /\ WillCancel(tick[t], k, o) /\ OnSide(live', s) \subseteq {o}
    <3>1. /\ AtMostOne(OnSide(live, s))
          /\ ~failed =>
               \/ OnSide(live, s) = {}
               \/ \E o \in Orders, k \in DOMAIN tick[t].todo :
                    k < i /\ WillCancel(tick[t], k, o) /\ OnSide(live, s) \subseteq {o}
      BY <2>1, <2>3 DEF Room
    <3>2. AtMostOne(OnSide(live', s))
      BY <1>2, <3>1 DEF AtMostOne
    <3>3. QED
      BY <1>2, <3>1, <3>2
  <2>4. Room(tick[t])'
    BY <2>3 DEF Room, WillPlace, WillCancel, Done
  <2>5. QED
    BY <2>1, <2>2, <2>4
<1>4. SidesBounded'
  BY <1>2 DEF IInv, SidesBounded, AtMostOne, AtMostTwo
<1>5. TrackerCoversLive'
  BY DEF IInv, TrackerCoversLive, Placing
<1>6. QED
  BY <1>1, <1>3, <1>4, <1>5 DEF IInv, Shape

(* A step of the one tick there is.                                        *)
LEMMA SoloStep ==
  ASSUME IInv, CalmExchange, NEW t \in Ticks, NEW r \in Locals, tick' = [tick EXCEPT ![t] = r],
         Shape(r), ReplyTrue(r)', Room(r)', SidesBounded',
         state' \in CoreState, tracker' \in SUBSET Orders, live' \in SUBSET Orders,
         failed' \in BOOLEAN, backoff' \in BOOLEAN, backoff' => failed',
         \A o \in live' : o \in tracker' \/ (r.pc = "place" /\ r.order = o)
  PROVE  IInv'
<1>1. tick' \in [Ticks -> Locals] /\ \A other \in Ticks : tick'[other] = r
  BY DEF IInv, TypeOK, CalmExchange
<1>2. TypeOK'
  BY <1>1 DEF TypeOK
<1>3. \A other \in Ticks : Shape(tick'[other]) /\ ReplyTrue(tick[other])' /\ Room(tick[other])'
  BY <1>1 DEF ReplyTrue, Room, WillPlace, WillCancel, Done
<1>4. \A other \in Ticks : Shape(tick[other])'
  BY <1>3 DEF Shape
<1>5. TrackerCoversLive'
  BY <1>1 DEF TrackerCoversLive, Placing
<1>6. QED
  BY <1>2, <1>3, <1>4, <1>5 DEF IInv

LEMMA SameBook ==
  ASSUME UNCHANGED <<live, failed>>
  PROVE  /\ \A r \in Locals : (ReplyTrue(r) => ReplyTrue(r)') /\ (Room(r) => Room(r)')
         /\ SidesBounded => SidesBounded'
BY DEF ReplyTrue, Room, SidesBounded

(* While no placement is awaited, every live order is tracked.              *)
LEMMA CoveredBy ==
  ASSUME IInv, CalmExchange, NEW t \in Ticks, tick[t].pc # "place"
  PROVE  live \subseteq tracker
BY DEF IInv, TrackerCoversLive, Placing, CalmExchange
-----------------------------------------------------------------------------
(* Planning                                                                *)

LEMMA PlanStep ==
  ASSUME NEW t \in Ticks, NEW r \in Locals, NEW trk \in SUBSET Orders, Plan(t, r, trk)
  PROVE  \E changed \in Locals :
           /\ tick' = [tick EXCEPT ![t] = changed]
           /\ changed.pc = "next" /\ changed.reply = "none"
           /\ changed.next = r.next
           /\ Planned(changed.todo, trk)
<1>1. PICK bidPlan \in SidePlans(trk, "buy", r.canRefresh), askPlan \in SidePlans(trk, "sell", r.canRefresh) :
        tick' = [tick EXCEPT ![t] = [r EXCEPT
          !.pc = "next", !.canRefresh = FALSE, !.reply = "none", !.snap = {},
          !.todo = IF TooManyOrders(trk) THEN << [type |-> "cancel_all"] >>
                   ELSE PlanExecution(Intent(r), OrderOnSide(trk, "buy"), bidPlan,
                                      OrderOnSide(trk, "sell"), askPlan)]]
  BY DEF Plan
<1>2. PICK todo : todo = IF TooManyOrders(trk) THEN << [type |-> "cancel_all"] >>
                   ELSE PlanExecution(Intent(r), OrderOnSide(trk, "buy"), bidPlan,
                                      OrderOnSide(trk, "sell"), askPlan)
  OBVIOUS
<1>3. Planned(todo, trk)
  <2>1. CASE TooManyOrders(trk)
    BY <1>2, <2>1, CancelAllPlanned
  <2>2. CASE ~TooManyOrders(trk)
    <3>1. r.canRefresh \in BOOLEAN
      BY DEF Locals
    <3>2. QED
      BY <1>2, <2>2, <3>1, PlanFacts
  <2>3. QED
    BY <2>1, <2>2
<1>4. todo \in Seq(Action)
  BY <1>3 DEF Planned
<1> DEFINE changed == [r EXCEPT !.pc = "next", !.canRefresh = FALSE, !.reply = "none", !.snap = {}, !.todo = todo]
<1>5. tick' = [tick EXCEPT ![t] = changed]
  BY <1>1, <1>2
<1>6. changed \in Locals
  BY <1>4 DEF Locals, Pcs, Replies
<1>7. changed.pc = "next" /\ changed.reply = "none" /\ changed.next = r.next /\ changed.todo = todo
  BY DEF Locals
<1> HIDE DEF changed
<1>8. QED
  BY <1>3, <1>5, <1>6, <1>7

(* A plan made against a tracker that covers the book has room in it.       *)
LEMMA PlannedFits ==
  ASSUME NEW r \in Locals, r.pc = "next", r.reply = "none", NEW trk, Planned(r.todo, trk), live \subseteq trk
  PROVE  Shape(r) /\ ReplyTrue(r) /\ Room(r)
<1>1. Shape(r) /\ ReplyTrue(r)
  BY DEF Shape, ReplyTrue, Calls, Planned
<1>2. \A s \in Sides : OnSide(live, s) \subseteq OnSide(trk, s)
  BY DEF OnSide
<1>3. ASSUME NEW s \in Sides, NEW i \in DOMAIN r.todo, WillPlace(r, i, s)
      PROVE  /\ AtMostOne(OnSide(live, s))
             /\ \/ OnSide(live, s) = {}
                \/ \E o \in Orders, k \in DOMAIN r.todo :
                     k < i /\ WillCancel(r, k, o) /\ OnSide(live, s) \subseteq {o}
  <2>1. /\ AtMostOne(OnSide(trk, s))
        /\ \/ OnSide(trk, s) = {}
           \/ \E o \in Orders, k \in DOMAIN r.todo :
                k < i /\ r.todo[k].type = "cancel" /\ r.todo[k].order = o /\ OnSide(trk, s) \subseteq {o}
    BY <1>3 DEF Planned, WillPlace
  <2>2. AtMostOne(OnSide(live, s))
    BY <1>2, <2>1 DEF AtMostOne
  <2>3. QED
    BY <1>2, <2>1, <2>2 DEF WillCancel, Done
<1>4. QED
  BY <1>1, <1>3 DEF Room

LEMMA DecisionType ==
  ASSUME state \in CoreState, NEW risk \in RiskEvaluation
  PROVE  Decision(risk) \in CoreState
BY DEF CoreState, Decision, DetermineNextMode, RiskEvaluation, Mode

LEMMA StartTickStep ==
  ASSUME IInv, CalmExchange, NEW t \in Ticks, StartTick(t)
  PROVE  IInv'
<1>1. PICK risk \in RiskEvaluation :
        IF reconcileDue /\ ~backoff
        THEN tick' = [tick EXCEPT ![t] =
               [[IdleTick EXCEPT !.next = Decision(risk), !.canRefresh = state.quoteDue] EXCEPT !.pc = "reconcile"]]
        ELSE Plan(t, [IdleTick EXCEPT !.next = Decision(risk), !.canRefresh = state.quoteDue], tracker)
  BY DEF StartTick
<1>2. /\ UNCHANGED <<state, tracker, live, failed, backoff>> /\ tick[t].pc = "idle"
      /\ state \in CoreState /\ tracker \in SUBSET Orders /\ live \in SUBSET Orders
      /\ failed \in BOOLEAN /\ backoff \in BOOLEAN /\ (backoff => failed) /\ SidesBounded
  BY DEF StartTick, exchange, IInv, TypeOK
<1>3. live \subseteq tracker
  BY <1>2, CoveredBy
<1>4. PICK next \in CoreState, quoteDue \in BOOLEAN : next = Decision(risk) /\ quoteDue = state.quoteDue
  BY <1>2, DecisionType DEF CoreState
<1> DEFINE r == [IdleTick EXCEPT !.next = next, !.canRefresh = quoteDue]
           waiting == [r EXCEPT !.pc = "reconcile"]
<1>5. r \in Locals /\ waiting \in Locals
  <2>1. << >> \in Seq(Action)
    OBVIOUS
  <2>2. QED
    BY <2>1 DEF IdleTick, Locals, Pcs, Calls, Replies
<1>6. waiting.pc = "reconcile" /\ waiting.reply = "none" /\ waiting.todo = << >>
  BY DEF IdleTick
<1>7. PICK changed \in Locals :
        /\ tick' = [tick EXCEPT ![t] = changed] /\ changed.pc # "place"
        /\ Shape(changed) /\ ReplyTrue(changed) /\ Room(changed)
  <2>1. CASE reconcileDue /\ ~backoff
    <3>1. tick' = [tick EXCEPT ![t] = waiting]
      BY <1>1, <1>4, <2>1
    <3> HIDE DEF waiting
    <3>2. Shape(waiting) /\ ReplyTrue(waiting) /\ Room(waiting)
      BY <1>6 DEF Shape, ReplyTrue, Room, Calls
    <3>3. QED
      BY <1>5, <1>6, <3>1, <3>2
  <2>2. CASE ~(reconcileDue /\ ~backoff)
    <3>1. PICK start \in Locals, trk \in SUBSET Orders : start = r /\ trk = tracker
      BY <1>2, <1>5
    <3>2. Plan(t, start, trk)
      BY <1>1, <1>4, <2>2, <3>1 DEF Plan
    <3>3. PICK changed \in Locals :
            /\ tick' = [tick EXCEPT ![t] = changed]
            /\ changed.pc = "next" /\ changed.reply = "none" /\ Planned(changed.todo, trk)
      BY <3>2, PlanStep
    <3>4. QED
      BY <1>3, <3>1, <3>3, PlannedFits
  <2>3. QED
    BY <2>1, <2>2
<1>8. ReplyTrue(changed)' /\ Room(changed)' /\ SidesBounded'
  BY <1>2, <1>7, SameBook
<1>9. QED
  BY <1>2, <1>3, <1>7, <1>8, SoloStep

LEMMA FinishStep ==
  ASSUME IInv, CalmExchange, NEW t \in Ticks, Finish(t)
  PROVE  IInv'
<1>1. /\ UNCHANGED <<tracker, live, failed, backoff>> /\ tick[t].pc = "next" /\ state' = tick[t].next
      /\ tick' = [tick EXCEPT ![t] = IdleTick]
      /\ tick[t] \in Locals /\ tracker \in SUBSET Orders /\ live \in SUBSET Orders
      /\ failed \in BOOLEAN /\ backoff \in BOOLEAN /\ (backoff => failed) /\ SidesBounded
  BY DEF Finish, exchange, timers, IInv, TypeOK
<1>2. IdleTick \in Locals /\ Shape(IdleTick) /\ ReplyTrue(IdleTick)' /\ Room(IdleTick)' /\ IdleTick.pc = "idle"
  <2>1. << >> \in Seq(Action)
    OBVIOUS
  <2>2. InitialState \in CoreState
    BY DEF InitialState, CoreState, Mode
  <2>3. IdleTick \in Locals
    BY <2>1, <2>2 DEF IdleTick, Locals, Pcs, Calls, Replies
  <2>4. QED
    BY <2>3 DEF IdleTick, Shape, ReplyTrue, Room, Calls
<1>3. live \subseteq tracker
  BY <1>1, CoveredBy
<1>4. state' \in CoreState
  BY <1>1 DEF Locals
<1>5. SidesBounded'
  BY <1>1, SameBook
<1>6. QED
  BY <1>1, <1>2, <1>3, <1>4, <1>5, SoloStep
-----------------------------------------------------------------------------
(* Going on after a call, or without one                                   *)

(* When the first action is over, there is room for the others: either it   *)
(* placed nothing that was promised room and cancelled nothing that made    *)
(* room, or it was skipped, which takes a failed call.                     *)
LEMMA ResumedFacts ==
  ASSUME NEW r \in Locals, r.todo # << >>, Shape(r), Room(r),
         failed \/ Done(r, 1) \/ Head(r.todo).type = "cancel_all",
         NEW c, c = [r EXCEPT !.pc = "next", !.todo = Tail(r.todo), !.order = NoneOrder,
                              !.snap = {}, !.reply = "none"]
  PROVE  c \in Locals /\ Shape(c) /\ ReplyTrue(c) /\ Room(c) /\ c.pc = "next"
<1>1. r.todo \in Seq(Action)
  BY DEF Locals
<1>2. /\ Tail(r.todo) \in Seq(Action)
      /\ Head(r.todo) = r.todo[1] /\ 1 \in DOMAIN r.todo /\ DOMAIN r.todo \subseteq Nat
      /\ \A i \in DOMAIN Tail(r.todo) :
           i \in Nat /\ i >= 1 /\ i + 1 \in DOMAIN r.todo /\ Tail(r.todo)[i] = r.todo[i + 1]
      /\ \A k \in DOMAIN r.todo : k # 1 => k - 1 \in DOMAIN Tail(r.todo) /\ Tail(r.todo)[k - 1] = r.todo[k]
  BY <1>1
<1>3. c \in Locals
  BY <1>2 DEF Locals, Pcs, Replies
<1>4. c.pc = "next" /\ c.reply = "none" /\ c.todo = Tail(r.todo)
  BY DEF Locals
<1>5. ASSUME NEW i \in DOMAIN c.todo, NEW k \in DOMAIN c.todo, NEW s \in Sides, i < k, IsPlace(c.todo[i], s)
      PROVE  ~IsPlace(c.todo[k], s)
  <2>1. i + 1 \in DOMAIN r.todo /\ k + 1 \in DOMAIN r.todo /\ i + 1 < k + 1
    BY <1>2, <1>4, <1>5
  <2>2. c.todo[i] = r.todo[i + 1] /\ c.todo[k] = r.todo[k + 1]
    BY <1>2, <1>4
  <2>3. QED
    BY <1>5, <2>1, <2>2 DEF Shape
<1>6. Shape(c) /\ ReplyTrue(c)
  BY <1>4, <1>5 DEF Shape, ReplyTrue, Calls
<1>7. ASSUME NEW s \in Sides, NEW i \in DOMAIN c.todo, WillPlace(c, i, s)
      PROVE  /\ AtMostOne(OnSide(live, s))
             /\ ~failed =>
                  \/ OnSide(live, s) = {}
                  \/ \E o \in Orders, k \in DOMAIN c.todo :
                       k < i /\ WillCancel(c, k, o) /\ OnSide(live, s) \subseteq {o}
  <2>1. i + 1 \in DOMAIN r.todo /\ i + 1 # 1 /\ IsPlace(r.todo[i + 1], s) /\ i \in Nat
    BY <1>2, <1>4, <1>7 DEF WillPlace
  <2>2. WillPlace(r, i + 1, s)
    BY <2>1 DEF WillPlace, Done
  <2>3. /\ AtMostOne(OnSide(live, s))
        /\ ~failed =>
             \/ OnSide(live, s) = {}
             \/ \E o \in Orders, k \in DOMAIN r.todo :
                  k < i + 1 /\ WillCancel(r, k, o) /\ OnSide(live, s) \subseteq {o}
    BY <2>1, <2>2 DEF Room
  <2>4. ASSUME ~failed, NEW o \in Orders, NEW k \in DOMAIN r.todo,
               k < i + 1, WillCancel(r, k, o), OnSide(live, s) \subseteq {o}
        PROVE  \E j \in DOMAIN c.todo : j < i /\ WillCancel(c, j, o)
    <3>1. k # 1
      BY <1>2, <2>4 DEF WillCancel
    <3>2. k - 1 \in DOMAIN c.todo /\ c.todo[k - 1] = r.todo[k] /\ k - 1 < i
      BY <1>2, <1>4, <2>1, <2>4, <3>1
    <3>3. WillCancel(c, k - 1, o)
      BY <1>4, <2>4, <3>2 DEF WillCancel, Done
    <3>4. QED
      BY <3>2, <3>3
  <2>5. QED
    BY <2>3, <2>4
<1>8. QED
  BY <1>3, <1>4, <1>6, <1>7 DEF Room

LEMMA ContinueStep ==
  ASSUME IInv, CalmExchange, NEW t \in Ticks, Continue(t), UNCHANGED <<state, live, failed>>,
         tick[t].todo # << >>,
         failed \/ Done(tick[t], 1) \/ Head(tick[t].todo).type = "cancel_all",
         tracker' \in SUBSET Orders, live \subseteq tracker', backoff' \in BOOLEAN, backoff' => failed
  PROVE  IInv'
<1>1. PICK r \in Locals : r = tick[t]
  BY DEF IInv, TypeOK
<1>2. Shape(r) /\ Room(r)
  BY <1>1 DEF IInv
<1>3. PICK c : c = [r EXCEPT !.pc = "next", !.todo = Tail(r.todo), !.order = NoneOrder, !.snap = {}, !.reply = "none"]
  OBVIOUS
<1>4. tick' = [tick EXCEPT ![t] = c]
  BY <1>1, <1>3 DEF Continue, Resumed
<1>5. c \in Locals /\ Shape(c) /\ ReplyTrue(c) /\ Room(c) /\ c.pc = "next"
  BY <1>1, <1>2, <1>3, ResumedFacts
<1>6. ReplyTrue(c)' /\ Room(c)' /\ SidesBounded'
  BY <1>5, SameBook DEF IInv
<1>7. state' \in CoreState /\ live' \in SUBSET Orders /\ failed' \in BOOLEAN
  BY DEF IInv, TypeOK
<1>8. QED
  BY <1>4, <1>5, <1>6, <1>7, SoloStep

(* A call is started: what is still to be done stays the same.              *)
LEMMA CallStep ==
  ASSUME IInv, CalmExchange, NEW t \in Ticks, NEW c \in Locals, tick' = [tick EXCEPT ![t] = c],
         c.todo = tick[t].todo, c.reply = "none", Shape(c), tick[t].pc \in {"next", "verify"},
         UNCHANGED <<state, live, failed>>, c.pc = "place" => c.order \notin live,
         tracker' \in SUBSET Orders, live \subseteq tracker', backoff' \in BOOLEAN, backoff' => failed
  PROVE  IInv'
<1>1. PICK r \in Locals : r = tick[t]
  BY DEF IInv, TypeOK
<1>2. Room(r)
  BY <1>1 DEF IInv
<1>3. Room(c)
  <2>1. c.todo = r.todo /\ (\A i : ~Done(r, i)) /\ \A i : ~Done(c, i)
    BY <1>1 DEF Done
  <2>2. QED
    BY <1>2, <2>1 DEF Room, WillPlace, WillCancel
<1>4. ReplyTrue(c)
  BY DEF ReplyTrue
<1>5. ReplyTrue(c)' /\ Room(c)' /\ SidesBounded'
  BY <1>3, <1>4, SameBook DEF IInv
<1>6. state' \in CoreState /\ live' \in SUBSET Orders /\ failed' \in BOOLEAN
  BY DEF IInv, TypeOK
<1>7. QED
  BY <1>5, <1>6, SoloStep
-----------------------------------------------------------------------------
LEMMA TickFacts ==
  ASSUME IInv, NEW t \in Ticks
  PROVE  /\ tick[t] \in Locals /\ Shape(tick[t]) /\ ReplyTrue(tick[t]) /\ Room(tick[t])
         /\ tracker \in SUBSET Orders /\ live \in SUBSET Orders /\ tick[t].todo \in Seq(Action)
         /\ failed \in BOOLEAN /\ backoff \in BOOLEAN /\ (backoff => failed)
BY DEF IInv, TypeOK, Locals

LEMMA SkipActionStep ==
  ASSUME IInv, CalmExchange, NEW t \in Ticks, SkipAction(t)
  PROVE  IInv'
<1>1. /\ backoff /\ tick[t].pc = "next" /\ tick[t].todo # << >> /\ Continue(t)
      /\ UNCHANGED <<state, tracker, live, failed, backoff>>
  BY DEF SkipAction, Ready, strategy, exchange, timers
<1>2. live \subseteq tracker
  BY <1>1, CoveredBy
<1>3. QED
  BY <1>1, <1>2, TickFacts, ContinueStep

LEMMA TryCancelAllStep ==
  ASSUME IInv, CalmExchange, NEW t \in Ticks, NEW have \in BOOLEAN, TryCancelAll(t, have),
         tick[t].pc \in {"next", "verify"}, tick[t].todo # << >>, Head(tick[t].todo).type = "cancel_all",
         UNCHANGED <<state, live, failed, backoff>>, tracker' \in SUBSET Orders, live \subseteq tracker'
  PROVE  IInv'
<1>1. CASE Continue(t)
  BY <1>1, TickFacts, ContinueStep
<1>2. CASE ~Continue(t)
  <2>1. tick' = [tick EXCEPT ![t] = [tick[t] EXCEPT !.pc = "cancelAll", !.snap = {}, !.reply = "none"]]
    BY <1>2 DEF TryCancelAll, IInv, TypeOK
  <2>2. PICK r \in Locals : r = tick[t]
    BY TickFacts
  <2> DEFINE c == [r EXCEPT !.pc = "cancelAll", !.snap = {}, !.reply = "none"]
  <2>3. c \in Locals
    BY DEF Locals, Pcs, Calls, Replies
  <2>4. c.pc = "cancelAll" /\ c.reply = "none" /\ c.todo = r.todo
    BY DEF Locals
  <2>5. tick' = [tick EXCEPT ![t] = c]
    BY <2>1, <2>2
  <2> HIDE DEF c
  <2>6. Shape(c)
    <3>1. Shape(r)
      BY <2>2, TickFacts
    <3>2. QED
      BY <2>2, <2>4, <3>1 DEF Shape, Calls
  <2>7. QED
    BY <2>2, <2>3, <2>4, <2>5, <2>6, TickFacts, CallStep
<1>3. QED
  BY <1>1, <1>2

LEMMA StartCancelAllStep ==
  ASSUME IInv, CalmExchange, NEW t \in Ticks, StartCancelAll(t)
  PROVE  IInv'
<1>1. /\ tick[t].pc = "next" /\ tick[t].todo # << >> /\ Head(tick[t].todo).type = "cancel_all"
      /\ UNCHANGED <<state, tracker, live, failed, backoff>>
  BY DEF StartCancelAll, Ready, strategy, exchange
<1>2. live \subseteq tracker
  BY <1>1, CoveredBy
<1>3. CASE tracker = {} /\ verifyDue
  <2>1. PICK r \in Locals : r = tick[t]
    BY TickFacts
  <2> DEFINE c == [r EXCEPT !.pc = "verify", !.order = NoneOrder]
  <2>2. tick' = [tick EXCEPT ![t] = c]
    BY <1>3, <2>1 DEF StartCancelAll, Goto, IInv, TypeOK
  <2>3. c \in Locals /\ c.pc = "verify" /\ c.todo = r.todo /\ c.reply = r.reply
    BY DEF Locals, Pcs, Calls
  <2> HIDE DEF c
  <2>4. Shape(r)
    BY <2>1, TickFacts
  <2>5. r.reply = "none"
    BY <1>1, <2>1, <2>4 DEF Shape
  <2>6. Shape(c)
    BY <1>1, <2>1, <2>3, <2>4 DEF Shape, Calls
  <2>7. QED
    BY <1>1, <1>2, <2>1, <2>2, <2>3, <2>5, <2>6, TickFacts, CallStep
<1>4. CASE ~(tracker = {} /\ verifyDue)
  <2>1. TryCancelAll(t, tracker # {})
    BY <1>4 DEF StartCancelAll
  <2>2. PICK have \in BOOLEAN : have = (tracker # {})
    OBVIOUS
  <2>3. TryCancelAll(t, have)
    BY <2>1, <2>2 DEF TryCancelAll, CancelAllDue
  <2>4. QED
    BY <1>1, <1>2, <2>3, TickFacts, TryCancelAllStep
<1>5. QED
  BY <1>3, <1>4

LEMMA StartCancelStep ==
  ASSUME IInv, CalmExchange, NEW t \in Ticks, StartCancel(t)
  PROVE  IInv'
<1>1. PICK r \in Locals : r = tick[t]
  BY TickFacts
<1>2. /\ r.pc = "next" /\ r.todo # << >> /\ Head(r.todo).type = "cancel"
      /\ UNCHANGED <<state, tracker, live, failed, backoff>>
      /\ tick' = [tick EXCEPT ![t] = [r EXCEPT !.pc = "cancel", !.order = Head(r.todo).order]]
  BY <1>1 DEF StartCancel, Ready, Goto, strategy, exchange, timers, IInv, TypeOK
<1>3. live \subseteq tracker
  BY <1>1, <1>2, CoveredBy
<1>4. Head(r.todo) \in Action
  <2>1. r.todo \in Seq(Action)
    BY DEF Locals
  <2>2. QED
    BY <1>2, <2>1
<1>5. Head(r.todo).order \in Orders
  BY <1>2, <1>4 DEF Action
<1> DEFINE c == [r EXCEPT !.pc = "cancel", !.order = Head(r.todo).order]
<1>6. c \in Locals /\ c.pc = "cancel" /\ c.todo = r.todo /\ c.reply = r.reply /\ c.order = Head(r.todo).order
  BY <1>5 DEF Locals, Pcs, Calls
<1>7. tick' = [tick EXCEPT ![t] = c]
  BY <1>2
<1> HIDE DEF c
<1>8. Shape(r) /\ r.reply = "none"
  BY <1>1, <1>2, TickFacts DEF Shape
<1>9. Shape(c)
  BY <1>2, <1>6, <1>8 DEF Shape, Calls
<1>10. QED
  BY <1>1, <1>2, <1>3, <1>6, <1>7, <1>8, <1>9, TickFacts, CallStep

LEMMA StartPlaceStep ==
  ASSUME IInv, CalmExchange, NEW t \in Ticks, StartPlace(t)
  PROVE  IInv'
<1>1. PICK r \in Locals : r = tick[t]
  BY TickFacts
<1>2. PICK o \in Orders \cup {NoneOrder} :
        /\ tick' = [tick EXCEPT ![t] = [r EXCEPT !.pc = "place", !.order = o]]
        /\ o # NoneOrder => o \in OnSide(Orders, Head(r.todo).side) \ InUse
  BY <1>1 DEF StartPlace, Goto, OnSide, IInv, TypeOK
<1>3. /\ r.pc = "next" /\ r.todo # << >> /\ Head(r.todo).type = "place"
      /\ UNCHANGED <<state, tracker, live, failed, backoff>>
  BY <1>1 DEF StartPlace, Ready, strategy, exchange, timers
<1>4. live \subseteq tracker
  BY <1>1, <1>3, CoveredBy
<1>5. o \notin live
  BY <1>2, NoneAssumption, TickFacts DEF InUse
<1>6. o # NoneOrder => o[1] = Head(r.todo).side
  BY <1>2 DEF OnSide
<1> DEFINE c == [r EXCEPT !.pc = "place", !.order = o]
<1>7. c \in Locals /\ c.pc = "place" /\ c.todo = r.todo /\ c.reply = r.reply /\ c.order = o
  BY DEF Locals, Pcs, Calls
<1>8. tick' = [tick EXCEPT ![t] = c]
  BY <1>2
<1> HIDE DEF c
<1>9. Shape(r) /\ r.reply = "none"
  BY <1>1, <1>3, TickFacts DEF Shape
<1>10. Shape(c)
  BY <1>3, <1>6, <1>7, <1>9 DEF Shape, Calls
<1>11. QED
  BY <1>1, <1>3, <1>4, <1>5, <1>7, <1>8, <1>9, <1>10, TickFacts, CallStep
-----------------------------------------------------------------------------
(* The code after each await                                               *)

LEMMA RateLimitFacts ==
  ASSUME IInv, NEW t \in Ticks, NoteRateLimit(t)
  PROVE  backoff' \in BOOLEAN /\ (backoff' => failed)
BY TickFacts DEF NoteRateLimit, ReplyTrue

(* The snapshot was taken with no placement under way, and since then       *)
(* orders have only ended.                                                 *)
LEMMA ResumeReconcileStep ==
  ASSUME IInv, CalmExchange, NEW t \in Ticks, ResumeReconcile(t)
  PROVE  IInv'
<1>1. PICK r \in Locals : r = tick[t]
  BY TickFacts
<1>2. /\ r.pc = "reconcile" /\ tracker' = (IF r.reply = "ok" THEN r.snap ELSE tracker)
      /\ NoteRateLimit(t) /\ UNCHANGED <<state, live, failed>>
  BY <1>1 DEF ResumeReconcile, Replied, strategy, exchange
<1>3. PICK trk \in SUBSET Orders : trk = tracker'
  BY <1>2, TickFacts DEF Locals
<1>4. Plan(t, r, trk)
  <2>1. PICK bidPlan \in SidePlans(tracker', "buy", tick[t].canRefresh),
             askPlan \in SidePlans(tracker', "sell", tick[t].canRefresh) :
          tick' = [tick EXCEPT ![t] = [tick[t] EXCEPT
            !.pc = "next", !.canRefresh = FALSE, !.reply = "none", !.snap = {},
            !.todo = IF TooManyOrders(tracker') THEN << [type |-> "cancel_all"] >>
                     ELSE PlanExecution(Intent(tick[t]), OrderOnSide(tracker', "buy"), bidPlan,
                                        OrderOnSide(tracker', "sell"), askPlan)]]
    BY Zenon DEF ResumeReconcile, Plan
  <2>2. QED
    BY <1>1, <1>3, <2>1 DEF Plan
<1>5. PICK changed \in Locals :
        /\ tick' = [tick EXCEPT ![t] = changed] /\ changed.pc = "next" /\ changed.reply = "none"
        /\ Planned(changed.todo, trk)
  BY <1>4, PlanStep
<1>6. live \subseteq trk
  <2>1. live \subseteq tracker
    BY <1>1, <1>2, CoveredBy
  <2>2. r.reply = "ok" => live \subseteq r.snap
    BY <1>1, <1>2, TickFacts DEF ReplyTrue
  <2>3. QED
    BY <1>2, <1>3, <2>1, <2>2
<1>7. Shape(changed) /\ ReplyTrue(changed) /\ Room(changed)
  BY <1>5, <1>6, PlannedFits
<1>8. ReplyTrue(changed)' /\ Room(changed)' /\ SidesBounded'
  BY <1>2, <1>7, SameBook DEF IInv
<1>9. /\ state' \in CoreState /\ live' \in SUBSET Orders /\ failed' \in BOOLEAN
      /\ backoff' \in BOOLEAN /\ (backoff' => failed')
  BY <1>2, RateLimitFacts DEF IInv, TypeOK
<1>10. QED
  BY <1>2, <1>3, <1>5, <1>6, <1>7, <1>8, <1>9, SoloStep

LEMMA ResumeVerifyStep ==
  ASSUME IInv, CalmExchange, NEW t \in Ticks, ResumeVerify(t)
  PROVE  IInv'
<1>1. PICK r \in Locals : r = tick[t]
  BY TickFacts
<1>2. PICK found \in BOOLEAN : found = (r.reply = "ok" /\ r.snap # {})
  OBVIOUS
<1>3. /\ r.pc = "verify" /\ tracker' = (IF found THEN r.snap ELSE tracker)
      /\ UNCHANGED <<state, live, failed, backoff>>
  BY <1>1, <1>2 DEF ResumeVerify, Replied, strategy, exchange
<1>4. TryCancelAll(t, found)
  BY <1>1, <1>2 DEF ResumeVerify, TryCancelAll, CancelAllDue
<1>5. live \subseteq tracker' /\ tracker' \in SUBSET Orders
  <2>1. live \subseteq tracker
    BY <1>1, <1>3, CoveredBy
  <2>2. r.reply = "ok" => live \subseteq r.snap
    BY <1>1, <1>3, TickFacts DEF ReplyTrue
  <2>3. QED
    BY <1>2, <1>3, <2>1, <2>2, TickFacts DEF Locals
<1>6. r.todo # << >> /\ Head(r.todo).type = "cancel_all"
  BY <1>1, <1>3, TickFacts DEF Shape, Calls
<1>7. QED
  BY <1>1, <1>3, <1>4, <1>5, <1>6, TryCancelAllStep

LEMMA ResumeCallStep ==
  ASSUME IInv, CalmExchange, NEW t \in Ticks, ResumeCancelAll(t) \/ ResumeCancel(t) \/ ResumePlace(t)
  PROVE  IInv'
<1>1. PICK r \in Locals : r = tick[t]
  BY TickFacts
<1>2. /\ Continue(t) /\ NoteRateLimit(t) /\ UNCHANGED <<state, live, failed>>
      /\ r.pc \in {"cancelAll", "cancel", "place"} /\ r.reply # "none"
      /\ r.pc = "cancelAll" => tracker' = IF r.reply = "ok" THEN {} ELSE tracker
      /\ r.pc = "cancel" => tracker' = IF r.reply = "ok" THEN tracker \ {r.order} ELSE tracker
      /\ r.pc = "place" => tracker' = IF r.reply = "ok" THEN tracker \cup {r.order} ELSE tracker
  BY <1>1 DEF ResumeCancelAll, ResumeCancel, ResumePlace, Replied, strategy, exchange
<1>3. Shape(r) /\ ReplyTrue(r) /\ tracker \in SUBSET Orders /\ live \in SUBSET Orders
  BY <1>1, TickFacts
<1>4. r.todo # << >> /\ (Done(r, 1) \/ Head(r.todo).type = "cancel_all")
  BY <1>2, <1>3 DEF Shape, Done, Calls
<1>5. tracker' \in SUBSET Orders
  BY <1>2, <1>3 DEF Shape, Locals
<1>6. live \subseteq tracker'
  <2>1. CASE r.pc = "place"
    <3>1. \A o \in live : o \in tracker \/ o = r.order
      BY <1>1, <2>1 DEF IInv, TrackerCoversLive, Placing, CalmExchange
    <3>2. QED
      BY <1>2, <1>3, <2>1, <3>1 DEF ReplyTrue
  <2>2. CASE r.pc # "place"
    <3>1. live \subseteq tracker
      BY <1>1, <2>2, CoveredBy
    <3>2. QED
      BY <1>2, <1>3, <2>2, <3>1 DEF ReplyTrue
  <2>3. QED
    BY <2>1, <2>2
<1>7. QED
  BY <1>1, <1>2, <1>4, <1>5, <1>6, RateLimitFacts, ContinueStep
-----------------------------------------------------------------------------
(* The exchange answers                                                    *)

(* An answer changes the reply, and may change the book.                    *)
LEMMA AnswerStep ==
  ASSUME IInv, CalmExchange, NEW t \in Ticks, NEW r \in Locals, r = tick[t], NEW c \in Locals,
         NEW reply \in Replies, NEW snap \in SUBSET Orders, c = [r EXCEPT !.reply = reply, !.snap = snap],
         tick' = [tick EXCEPT ![t] = c], r.pc \in Calls, reply = "ok" /\ r.pc = "place" => r.order # NoneOrder,
         UNCHANGED <<state, tracker, backoff>>, live' \in SUBSET Orders, failed' \in BOOLEAN, failed => failed',
         ReplyTrue(c)', Room(c)', SidesBounded',
         \A o \in live' : o \in live \/ (r.pc = "place" /\ r.order = o)
  PROVE  IInv'
<1>1. c.pc = r.pc /\ c.todo = r.todo /\ c.order = r.order /\ c.reply = reply
  BY DEF Locals
<1>2. Shape(r)
  BY TickFacts
<1>3. Shape(c)
  BY <1>1, <1>2 DEF Shape, Calls
<1>4. \A o \in live' : o \in tracker' \/ (c.pc = "place" /\ c.order = o)
  BY <1>1 DEF IInv, TrackerCoversLive, Placing, CalmExchange
<1>5. state' \in CoreState /\ tracker' \in SUBSET Orders /\ backoff' \in BOOLEAN /\ (backoff' => failed')
  BY DEF IInv, TypeOK
<1>6. QED
  BY <1>3, <1>4, <1>5, SoloStep

(* Room stays when the book has not grown; an order that was to be cancelled *)
(* first is gone by then.                                                  *)
LEMMA RoomStays ==
  ASSUME NEW r \in Locals, NEW c \in Locals, Room(r), Shape(r), c.pc = r.pc, c.todo = r.todo,
         r.reply = "none", r.pc \in Calls,
         live' \in SUBSET live, failed => failed',
         r.pc = "cancel" /\ ~failed' => r.order \notin live'
  PROVE  Room(c)'
<1>1. \A s \in Sides : OnSide(live', s) \subseteq OnSide(live, s)
  BY DEF OnSide
<1>2. ASSUME NEW s \in Sides, NEW i \in DOMAIN c.todo, WillPlace(c, i, s)
      PROVE  /\ AtMostOne(OnSide(live', s))
             /\ ~failed' =>
                  \/ OnSide(live', s) = {}
                  \/ \E o \in Orders, k \in DOMAIN c.todo :
                       k < i /\ WillCancel(c, k, o) /\ OnSide(live', s) \subseteq {o}
  <2>1. WillPlace(r, i, s)
    BY <1>2 DEF WillPlace, Done
  <2>2. /\ AtMostOne(OnSide(live, s))
        /\ ~failed =>
             \/ OnSide(live, s) = {}
             \/ \E o \in Orders, k \in DOMAIN r.todo :
                  k < i /\ WillCancel(r, k, o) /\ OnSide(live, s) \subseteq {o}
    BY <1>2, <2>1 DEF Room
  <2>3. AtMostOne(OnSide(live', s))
    BY <1>1, <2>2 DEF AtMostOne
  <2>4. ASSUME ~failed', NEW o \in Orders, NEW k \in DOMAIN r.todo, k < i,
               WillCancel(r, k, o), OnSide(live, s) \subseteq {o}
        PROVE  OnSide(live', s) = {} \/ WillCancel(c, k, o)
    <3>1. CASE Done(c, k)
      <4>1. k = 1 /\ r.pc \in {"place", "cancel"} /\ r.todo # << >> /\ r.todo \in Seq(Action)
        BY <3>1 DEF Done, Shape, Locals, Calls
      <4>2. Head(r.todo) = r.todo[1]
        BY <4>1
      <4>3. r.pc = "cancel" /\ r.order = o
        BY <2>4, <4>1, <4>2 DEF WillCancel, Shape
      <4>4. o \notin live'
        BY <2>4, <4>3
      <4>5. QED
        BY <1>1, <2>4, <4>4 DEF OnSide
    <3>2. CASE ~Done(c, k)
      BY <2>4, <3>2 DEF WillCancel
    <3>3. QED
      BY <3>1, <3>2
  <2>5. QED
    BY <1>1, <2>2, <2>3, <2>4
<1>3. QED
  BY <1>2 DEF Room, WillPlace, WillCancel, Done

LEMMA BoundedStays ==
  ASSUME SidesBounded, live' \in SUBSET live, failed => failed'
  PROVE  SidesBounded'
<1>1. \A s \in Sides : OnSide(live', s) \subseteq OnSide(live, s)
  BY DEF OnSide
<1>2. QED
  BY <1>1 DEF SidesBounded, AtMostOne, AtMostTwo

(* Any answer but a placement that is accepted.                            *)
LEMMA ShrinkingAnswer ==
  ASSUME IInv, CalmExchange, NEW t \in Ticks, NEW reply \in Replies \ {"none"}, NEW snap \in SUBSET Orders,
         Reply(t, reply, snap), tick[t].pc \in Calls, tick[t].reply = "none", UNCHANGED <<state, tracker, backoff>>,
         live' \in SUBSET live, failed' \in BOOLEAN, failed => failed',
         tick[t].pc = "place" => reply # "ok",
         tick[t].pc \in {"reconcile", "verify"} /\ reply = "ok" => live' \subseteq snap,
         tick[t].pc = "cancelAll" /\ reply = "ok" => live' = {},
         tick[t].pc = "cancel" /\ (reply = "ok" \/ ~failed') => tick[t].order \notin live',
         reply = "rateLimit" => failed'
  PROVE  IInv'
<1> PICK r \in Locals : r = tick[t]
  BY TickFacts
<1> PICK c : c = [r EXCEPT !.reply = reply, !.snap = snap]
  OBVIOUS
<1>1. /\ c \in Locals /\ tick' = [tick EXCEPT ![t] = c]
      /\ c.pc = r.pc /\ c.todo = r.todo /\ c.order = r.order /\ c.reply = reply /\ c.snap = snap
      /\ Shape(r) /\ ReplyTrue(r) /\ Room(r)
  <2>1. reply \in Replies
    OBVIOUS
  <2>2. c \in Locals /\ c.pc = r.pc /\ c.todo = r.todo /\ c.order = r.order /\ c.reply = reply /\ c.snap = snap
    BY <2>1 DEF Locals
  <2>3. tick' = [tick EXCEPT ![t] = c]
    BY DEF Reply, IInv, TypeOK
  <2>4. Shape(r) /\ ReplyTrue(r) /\ Room(r)
    BY TickFacts
  <2>5. QED
    BY <2>2, <2>3, <2>4
<1>2. Room(c)'
  BY <1>1, RoomStays
<1>3. ReplyTrue(c)'
  BY <1>1 DEF ReplyTrue
<1>4. SidesBounded'
  BY BoundedStays DEF IInv
<1>5. live' \in SUBSET Orders
  BY TickFacts
<1>6. QED
  BY <1>1, <1>2, <1>3, <1>4, <1>5, AnswerStep

LEMMA AcceptPlaceStep ==
  ASSUME IInv, CalmExchange, NEW t \in Ticks, AcceptPlace(t)
  PROVE  IInv'
<1>1. Reply(t, "ok", {}) /\ UNCHANGED <<state, tracker, failed, backoff>>
  BY DEF AcceptPlace, CalmExchange, strategy, timers
<1> PICK r \in Locals : r = tick[t]
  BY TickFacts
<1> PICK c : c = [r EXCEPT !.reply = "ok", !.snap = {}]
  OBVIOUS
<1>2. /\ c \in Locals /\ tick' = [tick EXCEPT ![t] = c]
      /\ c.pc = r.pc /\ c.todo = r.todo /\ c.order = r.order /\ c.reply = "ok" /\ c.snap = {}
      /\ Shape(r) /\ ReplyTrue(r) /\ Room(r)
  <2>1. "ok" \in Replies /\ {} \in SUBSET Orders
    BY DEF Replies
  <2>2. c \in Locals /\ c.pc = r.pc /\ c.todo = r.todo /\ c.order = r.order /\ c.reply = "ok" /\ c.snap = {}
    BY <2>1 DEF Locals
  <2>3. tick' = [tick EXCEPT ![t] = c]
    BY <1>1 DEF Reply, IInv, TypeOK
  <2>4. Shape(r) /\ ReplyTrue(r) /\ Room(r)
    BY TickFacts
  <2>5. QED
    BY <2>2, <2>3, <2>4
<1>3. r.pc = "place" /\ r.reply = "none" /\ r.order # NoneOrder /\ live' = live \cup {r.order}
  BY <1>2 DEF AcceptPlace, Requested
<1>4. PICK o \in Orders : o = r.order
  BY <1>3 DEF Locals
<1>5. /\ r.todo \in Seq(Action) /\ r.todo # << >> /\ 1 \in DOMAIN r.todo /\ Head(r.todo) = r.todo[1]
      /\ DOMAIN r.todo \subseteq Nat /\ (\A i \in DOMAIN r.todo : i >= 1)
      /\ r.todo[1] \in Action /\ r.todo[1].type = "place" /\ r.todo[1].side = o[1]
  <2>1. r.todo \in Seq(Action) /\ r.todo # << >>
    BY <1>2, <1>3 DEF Shape, Locals, Calls
  <2>2. /\ 1 \in DOMAIN r.todo /\ Head(r.todo) = r.todo[1] /\ DOMAIN r.todo \subseteq Nat
        /\ (\A i \in DOMAIN r.todo : i >= 1) /\ r.todo[1] \in Action
    BY <2>1
  <2>3. QED
    BY <1>2, <1>3, <1>4, <2>1, <2>2 DEF Shape
<1>6. PICK side \in Sides : side = o[1]
  BY DEF Orders
<1>7. /\ OnSide(live', side) = OnSide(live, side) \cup {o}
      /\ \A s \in Sides \ {side} : OnSide(live', s) = OnSide(live, s)
  BY <1>3, <1>4, <1>6 DEF OnSide
<1>8. AtMostOne(OnSide(live, side)) /\ (~failed => OnSide(live, side) = {})
  <2>1. WillPlace(r, 1, side)
    BY <1>3, <1>5, <1>6 DEF WillPlace, Done, IsPlace
  <2>2. \A k \in DOMAIN r.todo : ~(k < 1)
    BY <1>5
  <2>3. QED
    BY <1>2, <1>5, <2>1, <2>2 DEF Room
<1>9. SidesBounded'
  <2> SUFFICES ASSUME NEW s \in Sides
               PROVE  AtMostTwo(OnSide(live', s)) /\ (~failed => AtMostOne(OnSide(live', s)))
    BY <1>1 DEF SidesBounded
  <2>1. CASE s = side
    BY <1>7, <1>8, <2>1 DEF AtMostOne, AtMostTwo
  <2>2. CASE s # side
    BY <1>7, <2>2 DEF IInv, SidesBounded
  <2>3. QED
    BY <2>1, <2>2
<1>10. Room(c)'
  <2>1. ASSUME NEW s \in Sides, NEW i \in DOMAIN c.todo, WillPlace(c, i, s)
        PROVE  /\ AtMostOne(OnSide(live', s))
               /\ ~failed =>
                    \/ OnSide(live', s) = {}
                    \/ \E x \in Orders, k \in DOMAIN c.todo :
                         k < i /\ WillCancel(c, k, x) /\ OnSide(live', s) \subseteq {x}
    <3>1. i # 1 /\ WillPlace(r, i, s)
      BY <1>2, <1>3, <2>1 DEF WillPlace, Done
    <3>2. s # side
      <4>1. IsPlace(r.todo[1], side) /\ 1 < i
        BY <1>2, <1>5, <1>6, <2>1, <3>1 DEF IsPlace
      <4>2. ~IsPlace(r.todo[i], side)
        BY <1>2, <1>5, <2>1, <4>1 DEF Shape
      <4>3. QED
        BY <3>1, <4>2 DEF WillPlace
    <3>3. /\ AtMostOne(OnSide(live, s))
          /\ ~failed =>
               \/ OnSide(live, s) = {}
               \/ \E x \in Orders, k \in DOMAIN r.todo :
                    k < i /\ WillCancel(r, k, x) /\ OnSide(live, s) \subseteq {x}
      BY <1>2, <2>1, <3>1 DEF Room
    <3>4. \A k \in DOMAIN r.todo, x \in Orders : WillCancel(r, k, x) => WillCancel(c, k, x)
      BY <1>2, <1>3, <1>5 DEF WillCancel, Done
    <3>5. QED
      BY <1>2, <1>7, <3>2, <3>3, <3>4
  <2>2. QED
    BY <1>1, <2>1 DEF Room, WillPlace, WillCancel, Done
<1>11. ReplyTrue(c)'
  BY <1>2, <1>3 DEF ReplyTrue
<1>12. /\ live' \in SUBSET Orders /\ failed' \in BOOLEAN /\ (failed => failed')
       /\ \A x \in live' : x \in live \/ (r.pc = "place" /\ r.order = x)
  BY <1>1, <1>3, <1>4, TickFacts
<1>13. "ok" \in Replies /\ {} \in SUBSET Orders /\ r.pc \in Calls
  BY <1>3 DEF Replies, Calls
<1>14. QED
  BY <1>1, <1>2, <1>3, <1>9, <1>10, <1>11, <1>12, <1>13, AnswerStep

LEMMA AnswerCases ==
  ASSUME IInv, CalmExchange, NEW t \in Ticks, Answer(t)
  PROVE  IInv'
<1>1. live \in SUBSET Orders /\ failed \in BOOLEAN /\ {} \in SUBSET Orders
  BY TickFacts
<1>2. CASE AnswerOpenOrders(t)
  <2>1. PICK snap \in SUBSET Orders : snap = live
    BY <1>1
  <2>2. Reply(t, "ok", snap)
    BY <1>2, <2>1 DEF AnswerOpenOrders, Reply
  <2>3. /\ UNCHANGED <<state, tracker, backoff, live, failed>>
        /\ tick[t].pc \in {"reconcile", "verify"} /\ tick[t].reply = "none"
    BY <1>2 DEF AnswerOpenOrders, Requested, strategy, exchange, timers
  <2>4. QED
    BY <1>1, <2>1, <2>2, <2>3, ShrinkingAnswer DEF Replies, Calls
<1>3. CASE AcceptCancelAll(t)
  <2>1. /\ UNCHANGED <<state, tracker, backoff, failed>> /\ live' = {} /\ Reply(t, "ok", {})
        /\ tick[t].pc = "cancelAll" /\ tick[t].reply = "none"
    BY <1>3 DEF AcceptCancelAll, Requested, strategy, timers
  <2>2. QED
    BY <1>1, <2>1, ShrinkingAnswer DEF Replies, Calls
<1>4. CASE AcceptCancel(t)
  <2>1. /\ UNCHANGED <<state, tracker, backoff, failed>> /\ live' = live \ {tick[t].order} /\ Reply(t, "ok", {})
        /\ tick[t].pc = "cancel" /\ tick[t].reply = "none"
    BY <1>4 DEF AcceptCancel, Requested, strategy, timers
  <2>2. QED
    BY <1>1, <2>1, ShrinkingAnswer DEF Replies, Calls
<1>5. CASE RefuseCancel(t)
  <2>1. /\ UNCHANGED <<state, tracker, backoff, live, failed>> /\ Reply(t, "error", {})
        /\ tick[t].pc = "cancel" /\ tick[t].reply = "none" /\ tick[t].order \notin live
    BY <1>5 DEF RefuseCancel, Requested, strategy, exchange, timers
  <2>2. QED
    BY <1>1, <2>1, ShrinkingAnswer DEF Replies, Calls
<1>6. CASE RefusePlace(t)
  <2>1. /\ UNCHANGED <<state, tracker, backoff, live, failed>> /\ Reply(t, "error", {})
        /\ tick[t].pc = "place" /\ tick[t].reply = "none"
    BY <1>6 DEF RefusePlace, Requested, strategy, exchange, timers
  <2>2. QED
    BY <1>1, <2>1, ShrinkingAnswer DEF Replies, Calls
<1>7. CASE FailCall(t)
  <2>1. PICK reply \in {"rateLimit", "error"} : Reply(t, reply, {})
    BY <1>7 DEF FailCall
  <2>2. /\ UNCHANGED <<state, tracker, backoff, live>> /\ failed' = TRUE
        /\ tick[t].pc \in Calls /\ tick[t].reply = "none"
    BY <1>7 DEF FailCall, Requested, strategy, timers
  <2>3. QED
    BY <1>1, <2>1, <2>2, ShrinkingAnswer DEF Replies
<1>8. QED
  BY <1>2, <1>3, <1>4, <1>5, <1>6, <1>7, AcceptPlaceStep DEF Answer, Succeed
-----------------------------------------------------------------------------
LEMMA InvariantStep == CalmExchange /\ IInv /\ [Next]_vars => IInv'
<1> SUFFICES ASSUME CalmExchange, IInv, [Next]_vars PROVE IInv'
  OBVIOUS
<1>1. ASSUME NEW t \in Ticks, TickStep(t) PROVE IInv'
  BY <1>1, StartTickStep, FinishStep, SkipActionStep, StartCancelAllStep, StartCancelStep, StartPlaceStep,
     ResumeReconcileStep, ResumeVerifyStep, ResumeCallStep, AnswerCases DEF TickStep, StartAction, Resume
<1>2. /\ state \in CoreState /\ tracker \in SUBSET Orders /\ live \in SUBSET Orders
      /\ failed \in BOOLEAN /\ backoff \in BOOLEAN /\ (backoff => failed)
  BY DEF IInv, TypeOK
<1>3. ASSUME NEW o \in Orders, OrderEnds(o) \/ DeliverEvent(o) \/ MiscountFills(o) PROVE IInv'
  BY <1>2, <1>3, OutsideStep
     DEF OrderEnds, DeliverEvent, MiscountFills, CalmExchange, strategy, exchange, timers
<1>4. CASE Timer
  <2>1. UNCHANGED <<tick, tracker, live, failed>> /\ (backoff' = FALSE \/ backoff' = backoff)
    BY <1>4 DEF Timer, BackoffEnds, ReconcileTimer, VerifyTimer, CancelAllTimer, PauseTimer, QuoteTimer,
                exchange, timers
  <2>2. state' \in CoreState
    <3>1. \/ state' = state
          \/ state' = [state EXCEPT !.pauseOver = TRUE]
          \/ state' = [state EXCEPT !.quoteDue = TRUE]
      BY <1>4 DEF Timer, BackoffEnds, ReconcileTimer, VerifyTimer, CancelAllTimer, PauseTimer, QuoteTimer,
                  strategy
    <3>2. QED
      BY <1>2, <3>1 DEF CoreState
  <2>3. live' \in SUBSET live /\ tracker' \in SUBSET Orders /\ live' \cap tracker \subseteq tracker'
    BY <1>2, <2>1, <2>2
  <2>4. /\ failed' \in BOOLEAN /\ (failed => failed')
        /\ backoff' \in BOOLEAN /\ (backoff' => failed')
    <3>1. failed \in BOOLEAN /\ backoff \in BOOLEAN /\ (backoff => failed)
      BY <1>2
    <3>2. failed' = failed
      BY <2>1
    <3>3. CASE backoff' = FALSE
      BY <3>1, <3>2, <3>3
    <3>4. CASE backoff' = backoff
      BY <3>1, <3>2, <3>4
    <3>5. QED
      BY <2>1, <3>3, <3>4
  <2>5. QED
    BY <2>1, <2>2, <2>3, <2>4, OutsideStep
<1>5. CASE Shutdown
  <2>1. /\ UNCHANGED <<state, tick, tracker, backoff>>
        /\ live' = {} \/ live' = live
        /\ failed' = failed \/ failed' = TRUE
    BY <1>5 DEF Shutdown, timers
  <2>2. live' \in SUBSET live /\ tracker' \in SUBSET Orders /\ live' \cap tracker \subseteq tracker'
    BY <1>2, <2>1
  <2>3. /\ failed' \in BOOLEAN /\ (failed => failed')
        /\ backoff' \in BOOLEAN /\ (backoff' => failed')
    <3>1. failed \in BOOLEAN /\ backoff \in BOOLEAN /\ (backoff => failed)
      BY <1>2
    <3>2. backoff' = backoff /\ (failed' = failed \/ failed' = TRUE)
      BY <2>1
    <3>3. QED
      BY <3>1, <3>2
  <2>4. state' \in CoreState
    BY <1>2, <2>1
  <2>5. QED
    BY <2>1, <2>2, <2>3, <2>4, OutsideStep
<1>6. CASE UNCHANGED vars
  BY <1>2, <1>6, OutsideStep DEF vars, strategy, exchange, timers
<1>7. QED
  BY <1>1, <1>3, <1>4, <1>5, <1>6 DEF Next

LEMMA InvariantHolds ==
  ASSUME CalmExchange
  PROVE  Spec => []IInv
<1>1. Init => IInv
  BY InitIInv
<1>2. IInv /\ [Next]_vars => IInv'
  BY InvariantStep
<1>3. QED
  BY <1>1, <1>2, PTL DEF Spec

(* Every live order is tracked or its placement is awaited, whatever fails  *)
(* and whenever orders end, events come or the tracker is reconciled.       *)
THEOREM NoOrderMissed ==
  ASSUME CalmExchange
  PROVE  Spec => []TrackerCoversLive
<1>1. IInv => TrackerCoversLive
  BY DEF IInv
<1>2. QED
  BY <1>1, InvariantHolds, PTL

(* One order on a side until a call fails, and two from then on.            *)
THEOREM BookStaysSmall ==
  ASSUME CalmExchange
  PROVE  Spec => []LiveOrdersBounded
<1>1. IInv => LiveOrdersBounded
  <2> SUFFICES ASSUME IInv, NEW s \in Sides
               PROVE  Cardinality(OnSide(live, s)) <= IF failed THEN 2 ELSE 1
    BY DEF LiveOrdersBounded
  <2>1. IsFiniteSet(OnSide(live, s))
    BY SideIsFinite DEF IInv, TypeOK
  <2>2. AtMostTwo(OnSide(live, s)) /\ (~failed => AtMostOne(OnSide(live, s)))
    BY DEF IInv, SidesBounded
  <2>3. QED
    BY <2>1, <2>2, CountFacts
<1>2. QED
  BY <1>1, InvariantHolds, PTL

-----------------------------------------------------------------------------
(* How a PAUSE ends                                                        *)

(* No tick starts before the one before it has assigned its result.        *)
OneTick == \A t, other \in Ticks : t = other

Fields == {"pc", "next", "canRefresh", "todo", "order", "snap", "reply"}

(* What a tick in flight is about to assign was decided from the state as it *)
(* still is, so that it leads from PAUSE to PAUSE or DEFENSIVE.             *)
NextIsDue ==
  /\ DOMAIN state = {"mode", "pauseOver", "quoteDue"}
  /\ tick = [t \in Ticks |-> tick[t]]
  /\ \A t \in Ticks :
       /\ DOMAIN tick[t] = Fields
       /\ DOMAIN tick[t].next = {"mode", "pauseOver", "quoteDue"}
       /\ tick[t].pc # "idle" /\ state.mode = "PAUSE" => tick[t].next.mode \in {"PAUSE", "DEFENSIVE"}

(* Between its decision and its assignment a tick keeps what it decided.    *)
LEMMA UnderWay ==
  ASSUME NextIsDue, NEW t \in Ticks, TickStep(t), ~StartTick(t), ~Finish(t)
  PROVE  /\ tick[t].pc # "idle" /\ UNCHANGED state
         /\ \E c : /\ tick' = [tick EXCEPT ![t] = c]
                   /\ DOMAIN c = Fields /\ c.next = tick[t].next
<1> DEFINE Kept ==
      /\ tick[t].pc # "idle" /\ UNCHANGED state
      /\ \E c : /\ tick' = [tick EXCEPT ![t] = c]
                /\ DOMAIN c = Fields /\ c.next = tick[t].next
<1> SUFFICES Kept
  OBVIOUS
<1>1. DOMAIN tick[t] = Fields
  BY DEF NextIsDue
<1>2. ASSUME Continue(t), tick[t].pc # "idle", UNCHANGED state
      PROVE  Kept
  <2>1. DOMAIN Resumed(t) = Fields /\ Resumed(t).next = tick[t].next
    BY <1>1 DEF Resumed, Fields
  <2>2. QED
    BY <1>2, <2>1 DEF Continue
<1>3. ASSUME NEW pc, NEW order, Goto(t, pc, order), tick[t].pc # "idle", UNCHANGED state
      PROVE  Kept
  <2> DEFINE c == [tick[t] EXCEPT !.pc = pc, !.order = order]
  <2>1. DOMAIN c = Fields /\ c.next = tick[t].next
    BY <1>1 DEF Fields
  <2>2. tick' = [tick EXCEPT ![t] = c]
    BY <1>3 DEF Goto, NextIsDue
  <2>3. QED
    BY <1>3, <2>1, <2>2
<1>4. ASSUME NEW have, TryCancelAll(t, have), tick[t].pc # "idle", UNCHANGED state
      PROVE  Kept
  <2> DEFINE c == [tick[t] EXCEPT !.pc = "cancelAll", !.snap = {}, !.reply = "none"]
  <2>1. DOMAIN c = Fields /\ c.next = tick[t].next
    BY <1>1 DEF Fields
  <2>2. Continue(t) \/ tick' = [tick EXCEPT ![t] = c]
    BY <1>4 DEF TryCancelAll, NextIsDue
  <2>3. QED
    BY <1>2, <1>4, <2>1, <2>2
<1>5. ASSUME NEW trk, Plan(t, tick[t], trk), tick[t].pc # "idle", UNCHANGED state
      PROVE  Kept
  <2>1. PICK todo : tick' = [tick EXCEPT ![t] =
               [tick[t] EXCEPT !.pc = "next", !.canRefresh = FALSE, !.reply = "none", !.snap = {}, !.todo = todo]]
    BY <1>5 DEF Plan
  <2> DEFINE c == [tick[t] EXCEPT !.pc = "next", !.canRefresh = FALSE, !.reply = "none", !.snap = {}, !.todo = todo]
  <2>2. DOMAIN c = Fields /\ c.next = tick[t].next
    BY <1>1 DEF Fields
  <2>3. QED
    BY <1>5, <2>1, <2>2
<1>6. ASSUME NEW reply, NEW snap, Reply(t, reply, snap), tick[t].pc # "idle", UNCHANGED state
      PROVE  Kept
  <2> DEFINE c == [tick[t] EXCEPT !.reply = reply, !.snap = snap]
  <2>1. DOMAIN c = Fields /\ c.next = tick[t].next
    BY <1>1 DEF Fields
  <2>2. tick' = [tick EXCEPT ![t] = c]
    BY <1>6 DEF Reply, NextIsDue
  <2>3. QED
    BY <1>6, <2>1, <2>2
<1> HIDE DEF Kept
<1>7. CASE StartAction(t)
  <2>1. tick[t].pc # "idle" /\ UNCHANGED state
    BY <1>7 DEF StartAction, SkipAction, StartCancelAll, StartCancel, StartPlace, Ready, strategy
  <2>2. CASE SkipAction(t)
    BY <1>2, <2>1, <2>2 DEF SkipAction
  <2>3. CASE StartCancelAll(t)
    BY <1>3, <1>4, <2>1, <2>3 DEF StartCancelAll
  <2>4. CASE StartCancel(t) \/ StartPlace(t)
    <3>1. PICK pc, order : Goto(t, pc, order)
      BY <2>4 DEF StartCancel, StartPlace
    <3>2. QED
      BY <1>3, <2>1, <3>1
  <2>5. QED
    BY <1>7, <2>2, <2>3, <2>4 DEF StartAction
<1>8. CASE Resume(t)
  <2>1. tick[t].pc # "idle" /\ UNCHANGED state
    BY <1>8 DEF Resume, ResumeReconcile, ResumeVerify, ResumeCancelAll, ResumeCancel, ResumePlace, Replied, strategy
  <2>2. CASE ResumeReconcile(t)
    BY <1>5, <2>1, <2>2 DEF ResumeReconcile
  <2>3. CASE ResumeVerify(t)
    <3>1. PICK found : TryCancelAll(t, found)
      BY <2>3 DEF ResumeVerify
    <3>2. QED
      BY <1>4, <2>1, <3>1
  <2>4. CASE ResumeCancelAll(t) \/ ResumeCancel(t) \/ ResumePlace(t)
    <3>1. Continue(t)
      BY <2>4 DEF ResumeCancelAll, ResumeCancel, ResumePlace
    <3>2. QED
      BY <1>2, <2>1, <3>1
  <2>5. QED
    BY <1>8, <2>2, <2>3, <2>4 DEF Resume
<1>9. CASE Answer(t)
  <2>1. tick[t].pc # "idle" /\ UNCHANGED state
    BY <1>9 DEF Answer, Succeed, AnswerOpenOrders, AcceptCancelAll, AcceptCancel, AcceptPlace, RefuseCancel,
                RefusePlace, FailCall, Requested, Calls, strategy
  <2>2. PICK reply, snap : Reply(t, reply, snap)
    BY <1>9 DEF Answer, Succeed, AnswerOpenOrders, AcceptCancelAll, AcceptCancel, AcceptPlace, RefuseCancel,
                RefusePlace, FailCall
  <2>3. QED
    BY <1>6, <2>1, <2>2
<1>10. QED
  BY <1>7, <1>8, <1>9 DEF TickStep, Kept

LEMMA StartsDue ==
  ASSUME NextIsDue, OneTick, NEW t \in Ticks, StartTick(t)
  PROVE  NextIsDue' /\ UNCHANGED state
<1>1. PICK risk \in RiskEvaluation :
        LET r == [IdleTick EXCEPT !.next = Decision(risk), !.canRefresh = state.quoteDue]
        IN  Plan(t, r, tracker) \/ tick' = [tick EXCEPT ![t] = [r EXCEPT !.pc = "reconcile"]]
  BY DEF StartTick
<1> DEFINE r == [IdleTick EXCEPT !.next = Decision(risk), !.canRefresh = state.quoteDue]
<1>2. DOMAIN r = Fields /\ r.next = Decision(risk)
  BY DEF IdleTick, Fields
<1> HIDE DEF r
<1>3. PICK c : /\ tick' = [tick EXCEPT ![t] = c]
               /\ DOMAIN c = Fields /\ c.next = Decision(risk)
  <2>1. CASE Plan(t, r, tracker)
    <3>1. PICK todo : tick' = [tick EXCEPT ![t] =
                 [r EXCEPT !.pc = "next", !.canRefresh = FALSE, !.reply = "none", !.snap = {}, !.todo = todo]]
      BY <2>1 DEF Plan
    <3> DEFINE c == [r EXCEPT !.pc = "next", !.canRefresh = FALSE, !.reply = "none", !.snap = {}, !.todo = todo]
    <3>2. DOMAIN c = Fields /\ c.next = Decision(risk)
      BY <1>2 DEF Fields
    <3>3. QED
      BY <3>1, <3>2
  <2>2. CASE tick' = [tick EXCEPT ![t] = [r EXCEPT !.pc = "reconcile"]]
    <3> DEFINE c == [r EXCEPT !.pc = "reconcile"]
    <3>1. DOMAIN c = Fields /\ c.next = Decision(risk)
      BY <1>2 DEF Fields
    <3>2. QED
      BY <2>2, <3>1
  <2>3. QED
    BY <1>1, <2>1, <2>2 DEF r
<1>4. /\ DOMAIN Decision(risk) = {"mode", "pauseOver", "quoteDue"}
      /\ state.mode = "PAUSE" => Decision(risk).mode \in {"PAUSE", "DEFENSIVE"}
  BY DEF Decision, DetermineNextMode
<1>5. UNCHANGED state
  BY DEF StartTick
<1>6. \A other \in Ticks : other = t
  BY DEF OneTick
<1>7. tick' = [other \in Ticks |-> c]
  BY <1>3, <1>6 DEF NextIsDue
<1>8. QED
  BY <1>3, <1>4, <1>5, <1>7 DEF NextIsDue

(* Requirement 5.6, which overlapping ticks violate, holds when they do not  *)
(* overlap: whatever calls fail, replies are lost or orders miscounted, the *)
(* state that executeTick assigns follows from the one that it replaces.    *)
THEOREM PauseExit ==
  ASSUME OneTick
  PROVE  Spec => PauseExitsToDefensive
<1>1. Init => NextIsDue
  <2> SUFFICES ASSUME Init PROVE NextIsDue
    OBVIOUS
  <2>1. DOMAIN IdleTick = Fields /\ DOMAIN IdleTick.next = {"mode", "pauseOver", "quoteDue"} /\ IdleTick.pc = "idle"
    BY DEF IdleTick, InitialState, Fields
  <2>2. tick = [t \in Ticks |-> IdleTick] /\ state \in CoreState
    BY DEF Init
  <2>3. DOMAIN state = {"mode", "pauseOver", "quoteDue"}
    BY <2>2 DEF CoreState
  <2>4. QED
    BY <2>1, <2>2, <2>3 DEF NextIsDue
<1>2. NextIsDue /\ [Next]_vars =>
        NextIsDue' /\ (state.mode = "PAUSE" /\ state'.mode # "PAUSE" => state'.mode = "DEFENSIVE")
  <2> SUFFICES ASSUME NextIsDue, [Next]_vars
               PROVE  /\ NextIsDue'
                      /\ state.mode = "PAUSE" /\ state'.mode # "PAUSE" => state'.mode = "DEFENSIVE"
    OBVIOUS
  <2>1. ASSUME NEW t \in Ticks, StartTick(t)
        PROVE  NextIsDue' /\ UNCHANGED state
    BY <2>1, StartsDue
  <2>2. ASSUME NEW t \in Ticks, Finish(t)
        PROVE  /\ NextIsDue'
               /\ state.mode = "PAUSE" => state'.mode \in {"PAUSE", "DEFENSIVE"}
    <3>1. /\ tick[t].pc = "next" /\ state' = tick[t].next
          /\ tick' = [tick EXCEPT ![t] = IdleTick]
      BY <2>2 DEF Finish
    <3>2. tick' = [other \in Ticks |-> IdleTick]
      BY <3>1 DEF NextIsDue, OneTick
    <3>3. DOMAIN IdleTick = Fields /\ DOMAIN IdleTick.next = {"mode", "pauseOver", "quoteDue"} /\ IdleTick.pc = "idle"
      BY DEF IdleTick, InitialState, Fields
    <3>4. QED
      BY <3>1, <3>2, <3>3 DEF NextIsDue
  <2>3. ASSUME NEW t \in Ticks, TickStep(t), ~StartTick(t), ~Finish(t)
        PROVE  NextIsDue' /\ UNCHANGED state
    <3>1. /\ tick[t].pc # "idle" /\ UNCHANGED state
          /\ \E c : tick' = [tick EXCEPT ![t] = c] /\ DOMAIN c = Fields /\ c.next = tick[t].next
      BY <2>3, UnderWay
    <3>2. PICK c : tick' = [tick EXCEPT ![t] = c] /\ DOMAIN c = Fields /\ c.next = tick[t].next
      BY <3>1
    <3>3. QED
      BY <3>1, <3>2 DEF NextIsDue
  <2>4. ASSUME UNCHANGED tick, state' = state \/ state' = [state EXCEPT !.pauseOver = TRUE]
                                            \/ state' = [state EXCEPT !.quoteDue = TRUE]
        PROVE  NextIsDue' /\ state'.mode = state.mode
    <3>1. state'.mode = state.mode /\ DOMAIN state' = DOMAIN state
      BY <2>4 DEF NextIsDue
    <3>2. QED
      BY <2>4, <3>1 DEF NextIsDue
  <2>5. CASE \E t \in Ticks : TickStep(t)
    BY <2>1, <2>2, <2>3, <2>5
  <2>6. CASE ~\E t \in Ticks : TickStep(t)
    <3>1. UNCHANGED tick /\ (state' = state \/ state' = [state EXCEPT !.pauseOver = TRUE]
                                            \/ state' = [state EXCEPT !.quoteDue = TRUE])
      <4>1. CASE UNCHANGED vars
        BY <4>1 DEF vars, strategy
      <4>2. CASE \E o \in Orders : OrderEnds(o) \/ DeliverEvent(o) \/ MiscountFills(o)
        BY <4>2 DEF OrderEnds, DeliverEvent, MiscountFills, strategy
      <4>3. CASE Timer
        BY <4>3 DEF Timer, BackoffEnds, ReconcileTimer, VerifyTimer, CancelAllTimer, PauseTimer, QuoteTimer, strategy
      <4>4. CASE Shutdown
        BY <4>4 DEF Shutdown
      <4>5. QED
        BY <2>6, <4>1, <4>2, <4>3, <4>4 DEF Next
    <3>2. QED
      BY <2>4, <3>1
  <2>7. QED
    BY <2>5, <2>6
<1>3. QED
  BY <1>1, <1>2, PTL DEF Spec, PauseExitsToDefensive
=============================================================================
