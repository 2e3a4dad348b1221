----------------------------- MODULE MCIngestor -----------------------------
(***************************************************************************)
(* The three parts of the ingestor in one run: its connection, the order   *)
(* book, and what becomes of the events.  OrderBookFeed abstracts the      *)
(* connection to a stream that is open, broken or reopened, and            *)
(* MarketDataRecorder uses of a bbo event the mid alone; so each part is   *)
(* explored in full while the others rest, instead of every combination    *)
(* of their states.                                                        *)
(***************************************************************************)
EXTENDS MarketDataConnection, OrderBookFeed, MarketDataRecorder

VARIABLE part   \* the part that is explored

mcVars == <<part, connectionVars, feedVars, vars>>

(* Without a connection: before subscribe(), and stopped.                  *)
ConnectionRests ==
  /\ active = NoEntries
  /\ leaked = [s \in Streams |-> 0]
  /\ awaits = [l \in Loops |-> 0]
  /\ hung = {} /\ kick = NoLoop
  /\ timer = FALSE /\ isConnected = FALSE /\ isReconnecting = FALSE
  /\ reconnectAttempt = 0
  /\ subscribed = FALSE /\ stopped = TRUE /\ faults = 0 /\ overtaken = FALSE

MCInit ==
  /\ part \in {"connection", "feed", "recorder"}
  /\ IF part = "connection" THEN ConnectionInit ELSE ConnectionRests
  /\ FeedInit
  /\ part # "feed" => exchange = EmptyBook
  /\ Init

ConnectionPart ==
  part = "connection" /\ ConnectionNext /\ UNCHANGED <<part, feedVars, vars>>
FeedPart ==
  part = "feed" /\ FeedNext /\ UNCHANGED <<part, connectionVars, vars>>
RecorderPart ==
  part = "recorder" /\ Next /\ UNCHANGED <<part, connectionVars, feedVars>>

MCNext == ConnectionPart \/ FeedPart \/ RecorderPart

MCSpec == MCInit /\ [][MCNext]_mcVars /\ ConnectionFairness /\ RecorderFairness
=============================================================================
