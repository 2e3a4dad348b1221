--------------------------- MODULE OrderBookFeed ---------------------------
(***************************************************************************)
(* How ExtendedMarketDataAdapter turns the messages of the order book      *)
(* stream into best bid and offer events: the local book, the last top of  *)
(* it, and the check of sequence numbers, which sees events only.  The     *)
(* exchange's own book is the environment; messages of its changes may be  *)
(* lost, and the first message on a socket is a snapshot.                  *)
(*                                                                         *)
(* A level is its price: all the code asks of its size is whether it is    *)
(* positive.  One price is written in one way only.                        *)
(***************************************************************************)
EXTENDS Integers, FiniteSets, FiniteSetsExt

CONSTANTS
  BidPrices, AskPrices,  \* prices the exchange's book may have
  MaxLevels              \* MAX_LEVELS, what is kept of each side

NoPx == 0                \* a side of lastTopOfBook that is not set

ASSUME BookAssumption ==
  /\ BidPrices \cup AskPrices \subseteq Nat \ {NoPx}
  /\ IsFiniteSet(BidPrices \cup AskPrices)
  /\ MaxLevels \in Nat \ {0}

VARIABLES
  exchange,     \* the exchange's book (external)
  book,         \* orderbooks
  lastTop,      \* lastTopOfBook
  stream,       \* "open", "broken" after a sequence break, "fresh" when reopened
  lastSeq,      \* the entry of lastSeq: "none", "last" message, or an "older" one
  copy,         \* history: the book since its snapshot is "exact", "pruned", or
                \* "unknown" because a message was lost that no number can show
  emitted       \* history: the last step handed on a bbo event, which is lastTop

feedVars == <<exchange, book, lastTop, stream, lastSeq, copy, emitted>>

NoTop == [bid |-> NoPx, ask |-> NoPx]
EmptyBook == [bids |-> {}, asks |-> {}]

BestBid(levels) == IF levels = {} THEN NoPx ELSE Max(levels)
BestAsk(levels) == IF levels = {} THEN NoPx ELSE Min(levels)
TopOf(b) == [bid |-> BestBid(b.bids), ask |-> BestAsk(b.asks)]

Complete(top) == top.bid # NoPx /\ top.ask # NoPx
Crossed(top) == Complete(top) /\ top.bid >= top.ask
Sane(top) == Complete(top) /\ top.bid < top.ask

Books == {b \in [bids : SUBSET BidPrices, asks : SUBSET AskPrices] : ~Crossed(TopOf(b))}

FeedInit ==
  /\ exchange \in Books
  /\ book = EmptyBook /\ lastTop = NoTop
  /\ stream = "fresh" /\ lastSeq = "none"
  /\ copy = "unknown" /\ emitted = FALSE

-----------------------------------------------------------------------------
(* The local book                                                          *)

(* upsertSide: a level without a positive size is deleted. *)
UpsertSide(levels, side) == (levels \cup side.sets) \ side.deletes

(* prune keeps the MaxLevels best levels of a side. *)
PruneBids(levels) == {p \in levels : Cardinality({q \in levels : q > p}) < MaxLevels}
PruneAsks(levels) == {p \in levels : Cardinality({q \in levels : q < p}) < MaxLevels}

(* Mutant: a SNAPSHOT is merged into the book.                             *)
ApplyAsDelta(message) ==
  [bids |-> PruneBids(UpsertSide(book.bids, message.b)),
   asks |-> PruneAsks(UpsertSide(book.asks, message.a))]

ApplyMessage(message) ==
  LET base == IF message.type = "SNAPSHOT" THEN EmptyBook ELSE book
  IN  [bids |-> PruneBids(UpsertSide(base.bids, message.b)),
       asks |-> PruneAsks(UpsertSide(base.asks, message.a))]

(* A side that is missing is the one of the last top of the book. *)
Carried(b) ==
  LET top == TopOf(b)
  IN  [bid |-> IF top.bid # NoPx THEN top.bid ELSE lastTop.bid,
       ask |-> IF top.ask # NoPx THEN top.ask ELSE lastTop.ask]

(* A crossed top never becomes the last one. *)
TopAfter(b) == IF Crossed(Carried(b)) THEN lastTop ELSE Carried(b)

(* Whether there is a bbo event, which then carries TopAfter: with a crossed *)
(* book the previous top is repeated, if that one is sane.                 *)
Emits(b) == IF Crossed(Carried(b)) THEN Sane(lastTop) ELSE Complete(Carried(b))

-----------------------------------------------------------------------------
(* Messages                                                                *)

Side(from, to) == [sets |-> to \ from, deletes |-> from \ to]

(* What the exchange sends when its book becomes b. *)
SnapshotOf(b) ==
  [type |-> "SNAPSHOT", b |-> Side({}, b.bids), a |-> Side({}, b.asks)]
DeltaTo(b) ==
  [type |-> "DELTA", b |-> Side(exchange.bids, b.bids), a |-> Side(exchange.asks, b.asks)]

(* Levels are dropped although the exchange still has them. *)
Pruned(b) == Cardinality(b.bids) > MaxLevels \/ Cardinality(b.asks) > MaxLevels

(* checkSequence looks at events only, and needs a number to compare with:  *)
(* a message without an event makes the next one look like a gap.          *)
SeqBreak(emits) == emits /\ lastSeq = "older"

(* listenStream with one message: the book changes whatever the sequence   *)
(* number says; a break drops the event and ends the listener.             *)
Receive(message, b) ==
  LET after == ApplyMessage(message)
      broken == SeqBreak(Emits(after))
  IN  /\ exchange' = b
      /\ book' = after
      /\ lastTop' = TopAfter(after)
      /\ emitted' = (Emits(after) /\ ~broken)
      /\ stream' = IF broken THEN "broken" ELSE "open"
      /\ lastSeq' = IF Emits(after) THEN "last"
                    ELSE IF lastSeq = "none" THEN "none" ELSE "older"
      /\ copy' = IF message.type = "SNAPSHOT" \/ copy = "exact"
                 THEN IF Pruned(b) THEN "pruned" ELSE "exact"
                 ELSE copy

Snapshot(b) == stream = "fresh" /\ Receive(SnapshotOf(b), b)

Delta(b) == stream = "open" /\ Receive(DeltaTo(b), b)

(* A message that never arrives; it goes unnoticed before the first event.  *)
Lost(b) ==
  /\ stream = "open" /\ b # exchange
  /\ exchange' = b
  /\ lastSeq' = IF lastSeq = "none" THEN "none" ELSE "older"
  /\ copy' = IF lastSeq = "none" THEN "unknown" ELSE copy
  /\ emitted' = FALSE
  /\ UNCHANGED <<book, lastTop, stream>>

(* The reconnection by timer clears lastSeq and leaves the book and its top; *)
(* disconnect() of the watchdog clears the top too, while the stream works.  *)
Reconnect ==
  /\ \/ stream = "broken" /\ UNCHANGED lastTop
     \/ stream # "fresh" /\ lastTop' = NoTop
  /\ stream' = "fresh" /\ lastSeq' = "none" /\ emitted' = FALSE
  /\ UNCHANGED <<exchange, book, copy>>

FeedNext == Reconnect \/ \E b \in Books : Snapshot(b) \/ Delta(b) \/ Lost(b)

FeedSpec == FeedInit /\ [][FeedNext]_feedVars

-----------------------------------------------------------------------------
(* Properties                                                              *)

(* A best bid and offer that is handed on is never crossed, whatever was     *)
(* lost, skipped or reconnected.  It is the exchange's, unless levels were   *)
(* pruned, a side of the exchange's book is empty, or a message was lost     *)
(* before the first event of a connection gave checkSequence a number; and  *)
(* with pruned levels the book still holds nothing the exchange has not.    *)
TopIsTrue ==
  /\ ~Crossed(lastTop)
  /\ emitted /\ copy = "exact" /\ Complete(TopOf(exchange)) => lastTop = TopOf(exchange)
  /\ emitted /\ copy = "pruned" =>
       book.bids \subseteq exchange.bids /\ book.asks \subseteq exchange.asks
=============================================================================
