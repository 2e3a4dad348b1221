------------------------- MODULE FillTrackingProofs -------------------------
(***************************************************************************)
(* Proofs about the fills that reach the executor, for any number of orders *)
(* of any size, any length of the account stream and any number of syncs.   *)
(* What the position is worth (Truth) is a sum over the orders and plays no *)
(* part here.                                                              *)
(***************************************************************************)
EXTENDS FillTracking, TLAPS

Message == [order : Orders, trade : Nat, filledQty : Nat, ended : BOOLEAN]

Tracked == [size : Nat, filledSize : Nat]

TypeOK ==
  /\ order \in [Orders -> [status : {"unused", "open", "done"}, filled : Nat]]
  /\ stream \in Seq(Message)
  /\ lastFill \in [Orders -> Nat]
  /\ tracked \in [Orders -> Tracked]
  /\ recorded \in [Orders -> Nat]
  /\ placing \in SUBSET Orders
  /\ exact \in BOOLEAN /\ plain \in BOOLEAN

(* The exchange fills no more than was ordered, and an order that has ended *)
(* stays so: what a message says about its end is true when it is handled.  *)
OrdersEnd ==
  /\ \A o \in Orders :
       order[o].filled <= PlacedSize(o) /\ (order[o].status # "done" => order[o].filled < PlacedSize(o))
  /\ \A i \in DOMAIN stream : stream[i].ended => order[stream[i].order].status = "done"

(* Without a gap, the messages about an order lead from what was recorded   *)
(* to what is filled, and never back.                                      *)
Leads(o) ==
  /\ recorded[o] = lastFill[o] /\ lastFill[o] <= order[o].filled
  /\ Reported(o) => lastFill[o] = order[o].filled
  /\ \A i \in DOMAIN stream : stream[i].order = o =>
       /\ stream[i].trade = 0
       /\ lastFill[o] <= stream[i].filledQty /\ stream[i].filledQty <= order[o].filled
       /\ \A k \in DOMAIN stream : i < k /\ stream[k].order = o =>
            stream[i].filledQty <= stream[k].filledQty
       /\ (\A k \in DOMAIN stream : i < k => stream[k].order # o) =>
            stream[i].filledQty = order[o].filled

NoGap == exact => \A o \in Orders : Leads(o)

(* The tracker has counted no more than the adapter has, until a snapshot   *)
(* brings units of which the messages are still to come.                   *)
CountsNoMore ==
  plain => exact /\ \A o \in Orders : tracked[o] # Absent =>
    tracked[o].size = Requested[o] /\ tracked[o].filledSize <= lastFill[o]

(* The inductive invariant behind FillsRecordedOnce and OpenIsTracked.      *)
IInv == TypeOK /\ OrdersEnd /\ NoGap /\ CountsNoMore /\ OpenIsTracked
-----------------------------------------------------------------------------
(* The smaller of two counts.                                              *)
LEMMA MinFacts ==
  ASSUME NEW a \in Nat, NEW b \in Nat
  PROVE  Min({a, b}) = IF a <= b THEN a ELSE b
<1>1. CASE a <= b
  <2>1. \A x \in {a, b} : (\A y \in {a, b} : x =< y) <=> x = a
    BY <1>1
  <2>2. QED
    BY <1>1, <2>1 DEF Min
<1>2. CASE ~(a <= b)
  <2>1. \A x \in {a, b} : (\A y \in {a, b} : x =< y) <=> x = b
    BY <1>2
  <2>2. QED
    BY <1>2, <2>1 DEF Min
<1>3. QED
  BY <1>1, <1>2

(* The size at the exchange is a quantity.                                 *)
LEMMA PlacedSizeFacts ==
  ASSUME NEW o \in Orders
  PROVE  PlacedSize(o) \in Nat \ {0}
<1>1. ASSUME NEW qty \in Nat
      PROVE  RoundDownToStep(qty) \in Nat /\ RoundDownToStep(qty) <= qty /\ qty < RoundDownToStep(qty) + QtyStep
  BY <1>1, FillAssumption DEF RoundDownToStep
<1>2. RoundUpToStep(MinQty) \in Nat /\ MinQty <= RoundUpToStep(MinQty)
  BY <1>1, FillAssumption DEF RoundUpToStep
<1>3. QED
  BY <1>1, <1>2, FillAssumption DEF PlacedSize

(* The inductive invariant holds at the start.                             *)
LEMMA InitIInv == Init => IInv
<1> SUFFICES ASSUME Init PROVE IInv
  OBVIOUS
<1>1. stream \in Seq(Message) /\ DOMAIN stream = {}
  BY DEF Init
<1>2. TypeOK
  BY <1>1 DEF Init, TypeOK, Tracked, Absent
<1>3. OrdersEnd
  BY <1>1, PlacedSizeFacts DEF Init, OrdersEnd
<1>4. NoGap
  BY <1>1 DEF Init, NoGap, Leads, Reported
<1>5. CountsNoMore /\ OpenIsTracked
  BY DEF Init, CountsNoMore, OpenIsTracked, Untracked, Open, Absent
<1>6. QED
  BY <1>2, <1>3, <1>4, <1>5 DEF IInv

(* Steps that neither fill nor handle anything.                            *)
LEMMA QuietStep ==
  ASSUME IInv, UNCHANGED <<order, stream, lastFill, recorded, exact>>,
         placing' \in SUBSET Orders, tracked' \in [Orders -> Tracked],
         plain' \in BOOLEAN, plain' => plain,
         plain' => \A o \in Orders :
           /\ tracked'[o] # Absent =>
                tracked'[o].size = Requested[o] /\ tracked'[o].filledSize <= lastFill[o]
           /\ Open(o) /\ o \notin placing' /\ ~Raised(o) => tracked'[o] # Absent
  PROVE  IInv'
<1>1. TypeOK'
  BY DEF IInv, TypeOK
<1>2. OrdersEnd' /\ NoGap'
  BY DEF IInv, OrdersEnd, NoGap, Leads, Reported
<1>3. CountsNoMore' /\ OpenIsTracked'
  BY DEF IInv, CountsNoMore, OpenIsTracked, Untracked, Open
<1>4. QED
  BY <1>1, <1>2, <1>3 DEF IInv

LEMMA AcceptStep ==
  ASSUME IInv, NEW o \in Orders, Accept(o)
  PROVE  IInv'
<1>1. /\ UNCHANGED <<stream, lastFill, tracked, recorded, placing, exact, plain>>
      /\ order[o].status = "unused" /\ o \in placing
      /\ order' = [order EXCEPT ![o].status = "open"]
  BY DEF Accept, executor
<1>2. TypeOK'
  BY <1>1 DEF IInv, TypeOK
<1>3. /\ \A x \in Orders : order'[x].filled = order[x].filled
      /\ \A x \in Orders \ {o} : order'[x] = order[x]
      /\ order'[o].status = "open"
  BY <1>1 DEF IInv, TypeOK
<1>4. OrdersEnd'
  <2>1. \A i \in DOMAIN stream : stream[i].order \in Orders
    <3>1. \A i \in DOMAIN stream : stream[i] \in Message
      BY DEF IInv, TypeOK
    <3>2. QED
      BY <3>1 DEF Message
  <2>2. \A x \in Orders :
          order'[x].filled <= PlacedSize(x) /\ (order'[x].status # "done" => order'[x].filled < PlacedSize(x))
    BY <1>1, <1>3 DEF IInv, OrdersEnd
  <2>3. \A i \in DOMAIN stream : stream[i].ended => stream[i].order \in Orders \ {o}
    BY <1>1, <2>1 DEF IInv, OrdersEnd
  <2>4. QED
    BY <1>1, <1>3, <2>2, <2>3 DEF IInv, OrdersEnd
<1>5. NoGap'
  BY <1>1, <1>3 DEF IInv, NoGap, Leads, Reported
<1>6. CountsNoMore' /\ OpenIsTracked'
  BY <1>1, <1>3 DEF IInv, CountsNoMore, OpenIsTracked, Untracked, Open
<1>7. QED
  BY <1>2, <1>4, <1>5, <1>6 DEF IInv
-----------------------------------------------------------------------------
(* A message that is sent comes after all others.                          *)
LEMMA SendFacts ==
  ASSUME TypeOK, NEW o \in Orders, NEW trade \in Nat, Send(o, trade), order'[o].filled \in Nat
  PROVE  /\ stream' \in Seq(Message)
         /\ exact' \in BOOLEAN /\ plain' \in BOOLEAN /\ (plain' => plain /\ exact') /\ (exact' => exact /\ trade = 0)
         /\ \A i \in DOMAIN stream : i \in DOMAIN stream' /\ stream'[i] = stream[i]
         /\ \A i \in DOMAIN stream' \ DOMAIN stream :
              /\ i = Len(stream) + 1
              /\ stream'[i] = [order |-> o, trade |-> trade, filledQty |-> order'[o].filled,
                               ended |-> order'[o].status = "done"]
         /\ exact' => DOMAIN stream' = DOMAIN stream \cup {Len(stream) + 1}
<1>1. exact' \in BOOLEAN /\ plain' \in BOOLEAN /\ (plain' => plain /\ exact') /\ (exact' => exact /\ trade = 0)
  BY DEF Send, TypeOK
<1> DEFINE m == [order |-> o, trade |-> trade, filledQty |-> order'[o].filled,
                 ended |-> order'[o].status = "done"]
<1>2. m \in Message
  BY DEF Message
<1>3. (link = "up" /\ stream' = Append(stream, m)) \/ (link # "up" /\ ~exact' /\ stream' = stream)
  BY DEF Send
<1> HIDE DEF m
<1>4. stream \in Seq(Message)
  BY DEF TypeOK
<1>5. CASE stream' = Append(stream, m)
  <2>1. /\ stream' \in Seq(Message) /\ DOMAIN stream' = DOMAIN stream \cup {Len(stream) + 1}
        /\ stream'[Len(stream) + 1] = m
        /\ \A i \in DOMAIN stream : i \in DOMAIN stream' /\ stream'[i] = stream[i]
    BY <1>2, <1>4, <1>5
  <2>2. QED
    BY <1>1, <2>1 DEF m
<1>6. CASE stream' = stream /\ ~exact'
  BY <1>1, <1>4, <1>6
<1>7. QED
  BY <1>3, <1>5, <1>6

(* The order that is filled or cancelled tells so; what it told before      *)
(* leads to what it tells now.                                             *)
LEMMA TellStep ==
  ASSUME IInv, NEW o \in Orders, Open(o), NEW trade \in Nat, Send(o, trade),
         NEW status \in {"open", "done"}, NEW filled \in Nat,
         order' = [order EXCEPT ![o] = [status |-> status, filled |-> filled]],
         order[o].filled <= filled, filled <= PlacedSize(o), status = "open" => filled < PlacedSize(o),
         UNCHANGED <<lastFill, tracked, recorded, placing>>
  PROVE  IInv'
<1>1. order[o] \in [status : {"unused", "open", "done"}, filled : Nat]
  BY DEF IInv, TypeOK
<1>2. /\ order' \in [Orders -> [status : {"unused", "open", "done"}, filled : Nat]]
      /\ order'[o].filled = filled /\ order'[o].status = status
      /\ \A x \in Orders \ {o} : order'[x] = order[x]
  BY DEF IInv, TypeOK
<1>3. /\ stream' \in Seq(Message)
      /\ exact' \in BOOLEAN /\ plain' \in BOOLEAN /\ (plain' => plain /\ exact') /\ (exact' => exact /\ trade = 0)
      /\ \A i \in DOMAIN stream : i \in DOMAIN stream' /\ stream'[i] = stream[i]
      /\ \A i \in DOMAIN stream' \ DOMAIN stream :
           /\ i = Len(stream) + 1
           /\ stream'[i].order = o /\ stream'[i].trade = trade /\ stream'[i].filledQty = filled
           /\ stream'[i].ended = (status = "done")
      /\ exact' => DOMAIN stream' = DOMAIN stream \cup {Len(stream) + 1}
  <2>1. TypeOK /\ order'[o].filled \in Nat
    BY <1>2 DEF IInv
  <2>2. [order |-> o, trade |-> trade, filledQty |-> order'[o].filled, ended |-> order'[o].status = "done"]
          = [order |-> o, trade |-> trade, filledQty |-> filled, ended |-> status = "done"]
    BY <1>2
  <2>3. \A i \in DOMAIN stream' \ DOMAIN stream :
          /\ i = Len(stream) + 1
          /\ stream'[i] = [order |-> o, trade |-> trade, filledQty |-> filled, ended |-> status = "done"]
    BY <2>1, <2>2, SendFacts
  <2>4. \A i \in DOMAIN stream' \ DOMAIN stream :
          /\ i = Len(stream) + 1
          /\ stream'[i].order = o /\ stream'[i].trade = trade /\ stream'[i].filledQty = filled
          /\ stream'[i].ended = (status = "done")
    <3>1. PICK ended \in BOOLEAN : ended = (status = "done")
      OBVIOUS
    <3>2. \A i \in DOMAIN stream' \ DOMAIN stream :
            /\ i = Len(stream) + 1
            /\ stream'[i] = [order |-> o, trade |-> trade, filledQty |-> filled, ended |-> ended]
      BY <2>3, <3>1
    <3>3. QED
      BY <3>1, <3>2
  <2>5. /\ stream' \in Seq(Message)
        /\ exact' \in BOOLEAN /\ plain' \in BOOLEAN /\ (plain' => plain /\ exact') /\ (exact' => exact /\ trade = 0)
        /\ \A i \in DOMAIN stream : i \in DOMAIN stream' /\ stream'[i] = stream[i]
        /\ exact' => DOMAIN stream' = DOMAIN stream \cup {Len(stream) + 1}
    BY <2>1, SendFacts
  <2>6. QED
    BY <2>4, <2>5
<1>4. TypeOK'
  BY <1>2, <1>3 DEF IInv, TypeOK
<1>5. OrdersEnd'
  <2>1. \A x \in Orders :
          order'[x].filled <= PlacedSize(x) /\ (order'[x].status # "done" => order'[x].filled < PlacedSize(x))
    BY <1>2 DEF IInv, OrdersEnd
  <2>2. ASSUME NEW i \in DOMAIN stream', stream'[i].ended
        PROVE  order'[stream'[i].order].status = "done"
    <3>1. CASE i \in DOMAIN stream
      <4>0. stream[i] \in Message /\ stream[i].ended
        BY <1>3, <2>2, <3>1 DEF IInv, TypeOK
      <4>1. stream[i].order \in Orders /\ order[stream[i].order].status = "done"
        BY <3>1, <4>0 DEF IInv, OrdersEnd, Message
      <4>2. QED
        BY <1>2, <1>3, <3>1, <4>1 DEF Open
    <3>2. CASE i \notin DOMAIN stream
      BY <1>2, <1>3, <2>2, <3>2
    <3>3. QED
      BY <3>1, <3>2
  <2>3. QED
    BY <2>1, <2>2 DEF OrdersEnd
<1>6. NoGap'
  <2> SUFFICES ASSUME exact', NEW x \in Orders PROVE Leads(x)'
    BY DEF NoGap
  <2>1. Leads(x) /\ trade = 0
    BY <1>3 DEF IInv, NoGap
  <2>2. lastFill[x] \in Nat /\ order[x].filled \in Nat /\ Len(stream) \in Nat
        /\ DOMAIN stream = 1 .. Len(stream) /\ \A i \in DOMAIN stream : stream[i] \in Message
    BY DEF IInv, TypeOK
  <2>3. recorded'[x] = lastFill'[x] /\ lastFill'[x] <= order'[x].filled
    BY <1>2, <2>1, <2>2 DEF Leads
  <2>4. Reported(x)' => lastFill'[x] = order'[x].filled
    BY <1>2, <1>3, <2>1, <2>2 DEF Leads, Reported
  <2>5. ASSUME NEW i \in DOMAIN stream', stream'[i].order = x
        PROVE  /\ stream'[i].trade = 0
               /\ lastFill'[x] <= stream'[i].filledQty /\ stream'[i].filledQty <= order'[x].filled
               /\ \A k \in DOMAIN stream' : i < k /\ stream'[k].order = x =>
                    stream'[i].filledQty <= stream'[k].filledQty
               /\ (\A k \in DOMAIN stream' : i < k => stream'[k].order # x) =>
                    stream'[i].filledQty = order'[x].filled
    <3>1. CASE i = Len(stream) + 1
      <4>1. i \notin DOMAIN stream /\ \A k \in DOMAIN stream' : ~(i < k)
        BY <1>3, <2>2, <3>1
      <4>2. stream'[i].order = o /\ stream'[i].trade = 0 /\ stream'[i].filledQty = filled /\ x = o
        BY <1>3, <2>1, <2>5, <4>1
      <4>3. QED
        BY <1>2, <2>1, <2>2, <4>1, <4>2 DEF Leads
    <3>2. CASE i \in DOMAIN stream
      <4>1. stream'[i] = stream[i] /\ stream[i].order = x /\ stream[i].filledQty \in Nat
        BY <1>3, <2>2, <2>5, <3>2 DEF Message
      <4>2. stream[i].trade = 0 /\ lastFill[x] <= stream[i].filledQty /\ stream[i].filledQty <= order[x].filled
        BY <2>1, <3>2, <4>1 DEF Leads
      <4>3. order[x].filled <= order'[x].filled /\ order'[x].filled \in Nat
        BY <1>2, <2>2
      <4>4. ASSUME NEW k \in DOMAIN stream', i < k, stream'[k].order = x
            PROVE  stream'[i].filledQty <= stream'[k].filledQty
        <5>1. CASE k \in DOMAIN stream
          BY <1>3, <2>1, <3>2, <4>1, <4>4, <5>1 DEF Leads
        <5>2. CASE k \notin DOMAIN stream
          BY <1>2, <1>3, <2>2, <4>1, <4>2, <4>3, <4>4, <5>2
        <5>3. QED
          BY <5>1, <5>2
      <4>5. ASSUME \A k \in DOMAIN stream' : i < k => stream'[k].order # x
            PROVE  stream'[i].filledQty = order'[x].filled
        <5>1. x # o
          <6>1. Len(stream) + 1 \in DOMAIN stream' /\ i < Len(stream) + 1
            BY <1>3, <2>2, <3>2
          <6>2. Len(stream) + 1 \notin DOMAIN stream
            BY <2>2
          <6>3. stream'[Len(stream) + 1].order = o
            BY <1>3, <6>1, <6>2
          <6>4. QED
            BY <4>5, <6>1, <6>3
        <5>2. \A k \in DOMAIN stream : i < k => stream[k].order # x
          BY <1>3, <4>5
        <5>3. QED
          BY <1>2, <2>1, <3>2, <4>1, <5>1, <5>2 DEF Leads
      <4>6. QED
        BY <2>2, <4>1, <4>2, <4>3, <4>4, <4>5
    <3>3. QED
      BY <1>3, <3>1, <3>2
  <2>6. QED
    BY <2>3, <2>4, <2>5 DEF Leads
<1>7. CountsNoMore' /\ OpenIsTracked'
  BY <1>2, <1>3 DEF IInv, CountsNoMore, OpenIsTracked, Untracked, Open
<1>8. QED
  BY <1>4, <1>5, <1>6, <1>7 DEF IInv

(* A part of the order, or all that is left of it, is filled.               *)
LEMMA FillStep ==
  ASSUME IInv, NEW o \in Orders, Fill(o)
  PROVE  IInv'
<1>1. /\ order[o].filled \in Nat /\ PlacedSize(o) \in Nat /\ Open(o)
      /\ UNCHANGED <<lastFill, tracked, recorded, placing>>
  BY PlacedSizeFacts DEF IInv, TypeOK, Fill, executor
<1>2. PICK qty \in 1 .. PlacedSize(o) - order[o].filled :
        /\ order' = [order EXCEPT ![o] =
             [status |-> IF order[o].filled + qty = PlacedSize(o) THEN "done" ELSE "open",
              filled |-> order[o].filled + qty]]
        /\ \E withTrade \in TradeModes : Send(o, IF withTrade THEN qty ELSE 0)
  BY DEF Fill
<1>3. PICK filled \in Nat : filled = order[o].filled + qty
  BY <1>1
<1>4. PICK status \in {"open", "done"} : status = IF filled = PlacedSize(o) THEN "done" ELSE "open"
  OBVIOUS
<1>5. PICK trade \in Nat : Send(o, trade)
  BY <1>1, <1>2
<1>6. order' = [order EXCEPT ![o] = [status |-> status, filled |-> filled]]
  BY <1>2, <1>3, <1>4
<1>7. order[o].filled <= filled /\ filled <= PlacedSize(o) /\ (status = "open" => filled < PlacedSize(o))
  BY <1>1, <1>3, <1>4
<1>8. QED
  BY <1>1, <1>5, <1>6, <1>7, TellStep

LEMMA CancelledStep ==
  ASSUME IInv, NEW o \in Orders, Cancelled(o)
  PROVE  IInv'
<1>1. PICK filled \in Nat : filled = order[o].filled
  BY DEF IInv, TypeOK
<1>2. /\ Open(o) /\ order' = [order EXCEPT ![o] = [status |-> "done", filled |-> filled]]
      /\ Send(o, 0)
      /\ UNCHANGED <<lastFill, tracked, recorded, placing>>
  <2>1. /\ Open(o) /\ Send(o, 0) /\ UNCHANGED <<lastFill, tracked, recorded, placing>>
        /\ order' = [order EXCEPT ![o].status = "done"]
    BY DEF Cancelled, executor
  <2>2. order \in [Orders -> [status : {"unused", "open", "done"}, filled : Nat]]
    BY DEF IInv, TypeOK
  <2>3. [order[o] EXCEPT !.status = "done"] = [status |-> "done", filled |-> filled]
    <3>1. order[o] \in [status : {"unused", "open", "done"}, filled : Nat]
      BY <2>2
    <3>2. QED
      BY <1>1, <3>1
  <2>4. order' = [order EXCEPT ![o] = [order[o] EXCEPT !.status = "done"]]
    BY <2>1, <2>2
  <2>5. QED
    BY <2>1, <2>3, <2>4
<1>3. order[o].filled <= filled /\ filled <= PlacedSize(o)
  BY <1>1 DEF IInv, OrdersEnd
<1>4. QED
  BY <1>2, <1>3, TellStep
-----------------------------------------------------------------------------
(* What is left of the stream when its first message is handled.           *)
LEMMA TailFacts ==
  ASSUME TypeOK, stream # << >>
  PROVE  /\ Head(stream) = stream[1] /\ 1 \in DOMAIN stream /\ stream[1] \in Message
         /\ Tail(stream) \in Seq(Message)
         /\ DOMAIN Tail(stream) = 1 .. Len(stream) - 1
         /\ \A i \in DOMAIN Tail(stream) : i + 1 \in DOMAIN stream /\ Tail(stream)[i] = stream[i + 1]
         /\ \A k \in DOMAIN stream : k = 1 \/ (k - 1 \in DOMAIN Tail(stream) /\ stream[k] = Tail(stream)[k - 1])
         /\ DOMAIN stream \subseteq Nat
<1>1. stream \in Seq(Message) /\ Len(stream) \in Nat /\ Len(stream) > 0 /\ DOMAIN stream = 1 .. Len(stream)
  BY DEF TypeOK
<1>2. /\ Head(stream) = stream[1] /\ stream[1] \in Message /\ Tail(stream) \in Seq(Message)
      /\ DOMAIN Tail(stream) = 1 .. Len(stream) - 1
      /\ \A i \in DOMAIN Tail(stream) : Tail(stream)[i] = stream[i + 1]
  BY <1>1
<1>3. QED
  BY <1>1, <1>2

(* The adapter counts what filledQty grew by, so that it has recorded the   *)
(* filledQty it saw last; the tracker is never ahead of it.                *)
LEMMA HandleMessageStep ==
  ASSUME IInv, HandleMessage
  PROVE  IInv'
<1>1. stream # << >> /\ UNCHANGED <<order, placing, exact, plain>> /\ stream' = Tail(stream)
  BY DEF HandleMessage
<1>2. /\ Head(stream) = stream[1] /\ 1 \in DOMAIN stream /\ stream[1] \in Message
      /\ stream' \in Seq(Message)
      /\ DOMAIN stream' = 1 .. Len(stream) - 1
      /\ \A i \in DOMAIN stream' : i + 1 \in DOMAIN stream /\ stream'[i] = stream[i + 1]
      /\ \A k \in DOMAIN stream : k = 1 \/ (k - 1 \in DOMAIN stream' /\ stream[k] = stream'[k - 1])
      /\ DOMAIN stream \subseteq Nat
  BY <1>1, TailFacts DEF IInv
<1>3. PICK m \in Message : m = Head(stream)
  BY <1>2
<1>4. PICK o \in Orders, filledQty \in Nat : o = m.order /\ filledQty = m.filledQty
  BY DEF Message
<1>5. /\ order[o].filled \in Nat /\ lastFill[o] \in Nat /\ recorded[o] \in Nat
      /\ tracked[o] \in Tracked /\ PlacedSize(o) \in Nat
  BY PlacedSizeFacts DEF IInv, TypeOK
<1>6. PICK units \in Nat :
        units = m.trade + (IF filledQty > lastFill[o] THEN filledQty - lastFill[o] ELSE 0)
  BY <1>5 DEF Message
<1>7. /\ lastFill' = [lastFill EXCEPT ![o] = filledQty]
      /\ tracked' = [tracked EXCEPT ![o] = TrackedAfter(o, units, m.ended)]
      /\ recorded' = [recorded EXCEPT ![o] = Min({recorded[o] + units, PlacedSize(o) + 1})]
  BY <1>3, <1>4, <1>6 DEF HandleMessage, Counted, IInv, TypeOK
<1>8. Min({recorded[o] + units, PlacedSize(o) + 1})
        = IF recorded[o] + units <= PlacedSize(o) + 1 THEN recorded[o] + units ELSE PlacedSize(o) + 1
  BY <1>5, MinFacts
<1>9. TrackedAfter(o, units, m.ended) \in Tracked
  BY <1>5 DEF TrackedAfter, Tracked, Absent
<1>10. TypeOK'
  <2>1. /\ lastFill' \in [Orders -> Nat] /\ tracked' \in [Orders -> Tracked]
    BY <1>7, <1>9 DEF IInv, TypeOK
  <2>2. recorded' \in [Orders -> Nat]
    BY <1>5, <1>7, <1>8 DEF IInv, TypeOK
  <2>3. QED
    BY <1>1, <1>2, <2>1, <2>2 DEF IInv, TypeOK
<1>11. OrdersEnd'
  BY <1>1, <1>2 DEF IInv, OrdersEnd
<1>12. ASSUME exact
       PROVE  /\ m.trade = 0 /\ lastFill[o] <= filledQty /\ filledQty <= order[o].filled
              /\ recorded[o] = lastFill[o] /\ recorded'[o] = filledQty /\ units = filledQty - lastFill[o]
  <2>1. m.trade = 0 /\ lastFill[o] <= filledQty /\ filledQty <= order[o].filled /\ recorded[o] = lastFill[o]
    BY <1>2, <1>3, <1>4, <1>12 DEF IInv, NoGap, Leads
  <2>2. order[o].filled <= PlacedSize(o)
    BY DEF IInv, OrdersEnd
  <2>3. units = filledQty - lastFill[o]
    BY <1>5, <1>6, <2>1
  <2>4. recorded'[o] = Min({recorded[o] + units, PlacedSize(o) + 1})
    BY <1>7 DEF IInv, TypeOK
  <2>5. QED
    BY <1>5, <1>8, <2>1, <2>2, <2>3, <2>4
<1>13. /\ lastFill'[o] = filledQty
       /\ \A x \in Orders \ {o} :
            lastFill'[x] = lastFill[x] /\ tracked'[x] = tracked[x] /\ recorded'[x] = recorded[x]
  BY <1>7 DEF IInv, TypeOK
<1>14. NoGap'
  <2> SUFFICES ASSUME exact, NEW x \in Orders PROVE Leads(x)'
    BY <1>1 DEF NoGap
  <2>1. Leads(x)
    BY DEF IInv, NoGap
  <2>2. recorded'[x] = lastFill'[x] /\ lastFill'[x] <= order'[x].filled
    BY <1>1, <1>12, <1>13, <2>1 DEF Leads
  <2>3. ASSUME Reported(x)' PROVE lastFill'[x] = order'[x].filled
    <3>1. \A k \in DOMAIN stream : stream[k].order = x => k = 1
      BY <1>2, <2>3 DEF Reported
    <3>2. CASE x = o
      <4>1. stream[1].order = x /\ stream[1].filledQty = filledQty /\ \A k \in DOMAIN stream : 1 < k => stream[k].order # x
        BY <1>2, <1>3, <1>4, <3>1, <3>2
      <4>2. filledQty = order[x].filled
        BY <1>2, <2>1, <4>1 DEF Leads
      <4>3. QED
        BY <1>1, <1>13, <3>2, <4>2
    <3>3. CASE x # o
      <4>1. Reported(x)
        BY <1>2, <1>3, <1>4, <3>1, <3>3 DEF Reported
      <4>2. QED
        BY <1>1, <1>13, <2>1, <3>3, <4>1 DEF Leads
    <3>4. QED
      BY <3>2, <3>3
  <2>4. ASSUME NEW i \in DOMAIN stream', stream'[i].order = x
        PROVE  /\ stream'[i].trade = 0
               /\ lastFill'[x] <= stream'[i].filledQty /\ stream'[i].filledQty <= order'[x].filled
               /\ \A k \in DOMAIN stream' : i < k /\ stream'[k].order = x =>
                    stream'[i].filledQty <= stream'[k].filledQty
               /\ (\A k \in DOMAIN stream' : i < k => stream'[k].order # x) =>
                    stream'[i].filledQty = order'[x].filled
    <3>1. i \in Nat /\ i + 1 \in DOMAIN stream /\ stream'[i] = stream[i + 1] /\ stream[i + 1].order = x
      BY <1>2, <2>4
    <3>2. stream'[i].trade = 0 /\ lastFill[x] <= stream'[i].filledQty /\ stream'[i].filledQty <= order'[x].filled
      BY <1>1, <2>1, <3>1 DEF Leads
    <3>3. lastFill'[x] <= stream'[i].filledQty
      <4>1. CASE x = o
        <5>1. 1 < i + 1 /\ stream[1].order = x /\ stream[1].filledQty = filledQty
          BY <1>2, <1>3, <1>4, <2>4, <4>1
        <5>2. filledQty <= stream[i + 1].filledQty
          BY <1>2, <2>1, <3>1, <5>1 DEF Leads
        <5>3. QED
          BY <1>13, <3>1, <4>1, <5>2
      <4>2. CASE x # o
        BY <1>13, <3>2, <4>2
      <4>3. QED
        BY <4>1, <4>2
    <3>4. ASSUME NEW k \in DOMAIN stream', i < k, stream'[k].order = x
          PROVE  stream'[i].filledQty <= stream'[k].filledQty
      <4>1. k + 1 \in DOMAIN stream /\ stream'[k] = stream[k + 1] /\ i + 1 < k + 1
        BY <1>2, <3>1, <3>4
      <4>2. QED
        BY <2>1, <3>1, <3>4, <4>1 DEF Leads
    <3>5. ASSUME \A k \in DOMAIN stream' : i < k => stream'[k].order # x
          PROVE  stream'[i].filledQty = order'[x].filled
      <4>1. ASSUME NEW k \in DOMAIN stream, i + 1 < k PROVE stream[k].order # x
        <5>1. k \in Nat /\ k # 1 /\ i < k - 1
          BY <1>2, <3>1, <4>1
        <5>2. k - 1 \in DOMAIN stream' /\ stream[k] = stream'[k - 1]
          BY <1>2, <4>1, <5>1
        <5>3. QED
          BY <3>5, <5>1, <5>2
      <4>2. QED
        BY <1>1, <2>1, <3>1, <4>1 DEF Leads
    <3>6. QED
      BY <3>2, <3>3, <3>4, <3>5
  <2>5. QED
    BY <2>2, <2>3, <2>4 DEF Leads
<1>15. CountsNoMore' /\ OpenIsTracked'
  <2> SUFFICES ASSUME plain
               PROVE  /\ exact
                      /\ \A x \in Orders : tracked'[x] # Absent =>
                           tracked'[x].size = Requested[x] /\ tracked'[x].filledSize <= lastFill'[x]
                      /\ \A x \in Orders : Open(x) /\ x \notin placing /\ ~Raised(x) => tracked'[x] # Absent
    BY <1>1 DEF CountsNoMore, OpenIsTracked, Untracked, Open
  <2>1. /\ exact
        /\ tracked[o] # Absent => tracked[o].size = Requested[o] /\ tracked[o].filledSize <= lastFill[o]
    BY DEF IInv, CountsNoMore
  <2>2. tracked'[o] = TrackedAfter(o, units, m.ended)
    BY <1>7 DEF IInv, TypeOK
  <2>3. ASSUME tracked'[o] # Absent
        PROVE  /\ tracked[o] # Absent
               /\ tracked'[o].size = Requested[o] /\ tracked'[o].filledSize <= lastFill'[o]
    <3>1. tracked[o] # Absent /\ tracked'[o] = [tracked[o] EXCEPT !.filledSize = @ + units]
      BY <2>2, <2>3 DEF TrackedAfter
    <3>2. tracked'[o].size = tracked[o].size /\ tracked'[o].filledSize = tracked[o].filledSize + units
      BY <1>5, <3>1 DEF Tracked
    <3>3. tracked[o].filledSize \in Nat
      BY <1>5 DEF Tracked
    <3>4. QED
      BY <1>5, <1>12, <1>13, <2>1, <3>1, <3>2, <3>3
  <2>4. ASSUME Open(o), o \notin placing, ~Raised(o) PROVE tracked'[o] # Absent
    <3>1. tracked[o] # Absent
      BY <2>4 DEF IInv, OpenIsTracked, Untracked
    <3>2. ~m.ended
      BY <1>2, <1>3, <1>4, <2>4 DEF IInv, OrdersEnd, Open
    <3>3. tracked[o].filledSize \in Nat /\ tracked[o].size \in Nat
      BY <1>5 DEF Tracked
    <3>4. PlacedSize(o) <= Requested[o]
      BY <1>5, <2>4, FillAssumption DEF Raised
    <3>5. tracked[o].filledSize + units < tracked[o].size
      <4>1. order[o].filled < PlacedSize(o)
        BY <2>4 DEF IInv, OrdersEnd, Open
      <4>2. tracked[o].filledSize + units <= order[o].filled
        BY <1>5, <1>12, <2>1, <3>1, <3>3
      <4>3. QED
        BY <1>5, <2>1, <3>1, <3>3, <3>4, <4>1, <4>2
    <3>6. tracked'[o] = [tracked[o] EXCEPT !.filledSize = @ + units]
      BY <2>2, <3>1, <3>2, <3>3, <3>5 DEF TrackedAfter
    <3>7. tracked'[o].size > 0
      BY <1>5, <3>3, <3>5, <3>6 DEF Tracked
    <3>8. QED
      BY <3>7 DEF Absent
  <2>5. QED
    BY <1>13, <2>1, <2>3, <2>4 DEF IInv, CountsNoMore, OpenIsTracked, Untracked
<1>16. QED
  BY <1>10, <1>11, <1>14, <1>15 DEF IInv

(* What is missed or forgotten ends the history that the two promise about. *)
LEMMA LostStep ==
  ASSUME IInv, UNCHANGED <<order, recorded>>, stream' = << >>, exact' = FALSE, plain' = FALSE, placing' \in SUBSET Orders,
         lastFill' \in [Orders -> Nat], tracked' \in [Orders -> Tracked]
  PROVE  IInv'
<1>1. stream' \in Seq(Message) /\ DOMAIN stream' = {}
  OBVIOUS
<1>2. TypeOK'
  BY <1>1 DEF IInv, TypeOK
<1>3. OrdersEnd'
  BY <1>1 DEF IInv, OrdersEnd
<1>4. QED
  BY <1>2, <1>3 DEF IInv, NoGap, CountsNoMore, OpenIsTracked, Untracked

LEMMA SnapshotType ==
  ASSUME TypeOK
  PROVE  Snapshot \in [Orders -> Tracked]
BY PlacedSizeFacts DEF TypeOK, Snapshot, Tracked, Absent

LEMMA InvariantStep == IInv /\ [Next]_vars => IInv'
<1> SUFFICES ASSUME IInv, [Next]_vars PROVE IInv'
  OBVIOUS
<1>1. ASSUME UNCHANGED <<order, stream, lastFill, tracked, recorded, placing, exact, plain>> PROVE IInv'
  BY <1>1, QuietStep DEF IInv, TypeOK, CountsNoMore, OpenIsTracked, Untracked
<1>2. ASSUME NEW o \in Orders, Place(o) PROVE IInv'
  BY <1>2, QuietStep DEF Place, exchange, IInv, TypeOK, CountsNoMore, OpenIsTracked, Untracked
<1>3. ASSUME NEW o \in Orders, Track(o) PROVE IInv'
  <2>1. /\ UNCHANGED <<order, stream, lastFill, recorded, exact, plain>>
        /\ placing' = placing \ {o}
        /\ tracked' = [tracked EXCEPT ![o] = [size |-> Requested[o], filledSize |-> 0]]
    BY <1>3 DEF Track, exchange
  <2>2. placing' \in SUBSET Orders /\ tracked' \in [Orders -> Tracked]
    BY <2>1, FillAssumption DEF IInv, TypeOK, Tracked
  <2>3. /\ tracked'[o] = [size |-> Requested[o], filledSize |-> 0] /\ Requested[o] \in Nat \ {0}
        /\ lastFill[o] \in Nat /\ \A x \in Orders \ {o} : tracked'[x] = tracked[x]
    BY <1>3, <2>1, FillAssumption DEF IInv, TypeOK
  <2>4. tracked'[o] # Absent /\ tracked'[o].size = Requested[o] /\ tracked'[o].filledSize <= lastFill[o]
    BY <2>3 DEF Absent
  <2>5. plain => \A x \in Orders :
          /\ tracked'[x] # Absent =>
               tracked'[x].size = Requested[x] /\ tracked'[x].filledSize <= lastFill[x]
          /\ Open(x) /\ x \notin placing' /\ ~Raised(x) => tracked'[x] # Absent
    BY <2>1, <2>3, <2>4 DEF IInv, CountsNoMore, OpenIsTracked, Untracked
  <2>6. QED
    BY <2>1, <2>2, <2>5, QuietStep DEF IInv, TypeOK
<1>4. ASSUME NEW o \in Orders, Accept(o) \/ Fill(o) \/ Cancelled(o) PROVE IInv'
  BY <1>4, AcceptStep, FillStep, CancelledStep
<1>5. CASE HandleMessage
  BY <1>5, HandleMessageStep
<1>6. CASE Connect
  BY <1>1, <1>6 DEF Connect, exchange, executor
<1>7. CASE StreamEnds
  BY <1>7, LostStep DEF StreamEnds, executor, IInv, TypeOK
<1>8. CASE SyncOpenOrders
  BY <1>8, SnapshotType, QuietStep DEF SyncOpenOrders, exchange, IInv, TypeOK
<1>9. CASE Restart
  BY <1>9, SnapshotType, LostStep DEF Restart, IInv
<1>10. ASSUME NEW s \in Syncs, StartSync(s) \/ AnswerSync(s) \/ FailSync(s) \/ ApplySync(s) PROVE IInv'
  BY <1>1, <1>10 DEF StartSync, AnswerSync, FailSync, ApplySync, exchange
<1>11. CASE UNCHANGED vars
  BY <1>1, <1>11 DEF vars, exchange, executor
<1>12. QED
  BY <1>2, <1>3, <1>4, <1>5, <1>6, <1>7, <1>8, <1>9, <1>10, <1>11 DEF Next

LEMMA InvariantHolds == Spec => []IInv
BY InitIInv, InvariantStep, PTL DEF Spec

(* ex_fill has each unit once when the messages are handled, as long as     *)
(* none was missed and none brought its trade along.                       *)
THEOREM UnitsRecordedOnce == Spec => []FillsRecordedOnce
<1>1. IInv => FillsRecordedOnce
  BY DEF IInv, NoGap, Leads, FillsRecordedOnce
<1>2. QED
  BY <1>1, InvariantHolds, PTL

(* An open order whose placement was answered is tracked through its        *)
(* partial fills, so that the planner does not place a second one, as long  *)
(* as no snapshot interferes and its size was not raised to the minimum.    *)
THEOREM OpenOrdersTracked == Spec => []OpenIsTracked
<1>1. IInv => OpenIsTracked
  BY DEF IInv
<1>2. QED
  BY <1>1, InvariantHolds, PTL
=============================================================================
