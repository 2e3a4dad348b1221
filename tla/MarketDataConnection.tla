------------------------ MODULE MarketDataConnection ------------------------
(***************************************************************************)
(* The connection side of ExtendedMarketDataAdapter with the ingestor's    *)
(* watchdog: one web socket per stream, opened one after the other by a    *)
(* loop that awaits each handshake; a listener per open socket; a single   *)
(* reconnect timer; disconnect() and connect() called from outside.        *)
(*                                                                         *)
(* Only the handshake really suspends a loop (the other awaits are on      *)
(* settled promises), so that a loop started by a timer, by the watchdog   *)
(* or by subscribe() may still wait when the next one starts.  Messages    *)
(* are those of module OrderBookFeed; here a stream is open or it is not.  *)
(***************************************************************************)
EXTENDS Integers, FiniteSets, FiniteSetsExt

CONSTANTS
  StreamCount,       \* streams of the subscription, in the order they are opened
  Critical,          \* streams on which a sequence break forces a reconnection
  Loops,             \* bound: start loops under way at the same time
  NoLoop,            \* not a member of Loops
  HandshakeFaults,   \* "hangs": the promise of connect() never settles, "rejects"
  MaxFaults          \* bound: faults of the network in a behaviour

ASSUME StreamAssumption == StreamCount \in Nat \ {0} /\ Critical \subseteq 1 .. StreamCount
ASSUME LoopAssumption ==
  /\ IsFiniteSet(Loops)
  /\ NoLoop \notin Loops
  /\ MaxFaults \in Nat
  /\ HandshakeFaults \subseteq {"hangs", "rejects"}

Streams == 1 .. StreamCount

VARIABLES
  active,        \* activeStreams: no entry, a running listener, or an entry whose listener ended
  leaked,        \* running listeners whose entry another loop has overwritten, per stream
  awaits,        \* per start loop the stream whose handshake it awaits, 0 when it is over
  hung,          \* loops whose handshake will never settle
  kick,          \* the loop the watchdog awaits (watchdogInFlight), or NoLoop
  timer,         \* reconnectTimeoutId is set
  isConnected,
  isReconnecting,
  reconnectAttempt,
  subscribed,    \* subscribe() was called
  stopped,       \* the process has run its shutdown
  faults,        \* number of faults so far
  overtaken      \* history: the streams were stopped while a loop awaited a handshake

streams == <<active, leaked>>
loops == <<awaits, hung, kick>>
flags == <<timer, isConnected, isReconnecting, reconnectAttempt>>
history == <<subscribed, stopped, faults, overtaken>>
connectionVars == <<streams, loops, flags, history>>

NoEntries == [s \in Streams |-> "none"]
Running(l) == awaits[l] # 0
Live(s) == active[s] = "live" \/ leaked[s] > 0

ConnectionInit ==
  /\ active = NoEntries
  /\ leaked = [s \in Streams |-> 0]
  /\ awaits = [l \in Loops |-> 0]
  /\ hung = {}
  /\ kick = NoLoop
  /\ timer = FALSE /\ isConnected = TRUE /\ isReconnecting = FALSE
  /\ reconnectAttempt = 0
  /\ subscribed = FALSE /\ stopped = FALSE /\ faults = 0 /\ overtaken = FALSE

Fault == faults < MaxFaults /\ faults' = faults + 1

-----------------------------------------------------------------------------
(* Start loops                                                             *)

(* The loop skips streams that have an entry, whatever its listener does;   *)
(* 0 when no stream is left.                                               *)
NextStream(from, entries) ==
  LET left == {s \in Streams : s >= from /\ entries[s] = "none"}
  IN  IF left = {} THEN 0 ELSE Min(left)

(* startSubscription up to its first handshake, by loop l. *)
StartLoop(l, entries) == awaits' = [awaits EXCEPT ![l] = NextStream(1, entries)]

Idle == {l \in Loops : awaits[l] = 0}
NewLoop == CHOOSE l \in Idle : TRUE

(* Mutant: connect() leaves isReconnecting as it was.                      *)
ConnectedKeepingFlag ==
  isConnected' = TRUE /\ reconnectAttempt' = 0 /\ UNCHANGED isReconnecting

(* connect(), the assignments before the loop. *)
Connected ==
  isConnected' = TRUE /\ isReconnecting' = FALSE /\ reconnectAttempt' = 0

(* Mutant: an entry whose listener has ended stays.                        *)
StopAllRunning ==
  /\ active' = [s \in Streams |-> IF active[s] = "live" THEN "none" ELSE active[s]]
  /\ overtaken' = (overtaken \/ \E l \in Loops \ hung : Running(l))
  /\ UNCHANGED leaked

(* stopAllStreams closes the entries; a leaked listener has none.          *)
StopAll ==
  /\ active' = NoEntries
  /\ overtaken' = (overtaken \/ \E l \in Loops \ hung : Running(l))
  /\ UNCHANGED leaked

Subscribe ==
  /\ ~subscribed /\ ~stopped
  /\ subscribed' = TRUE
  /\ StartLoop(NewLoop, active)
  /\ UNCHANGED <<streams, hung, kick, flags, stopped, faults, overtaken>>

ScheduleReconnect ==
  IF timer \/ isReconnecting THEN UNCHANGED <<timer, isReconnecting, reconnectAttempt>>
  ELSE timer' = TRUE /\ isReconnecting' = TRUE /\ reconnectAttempt' = reconnectAttempt + 1

(* Mutant: watchdogInFlight is not reset when the watchdog's call returns.  *)
GoOnInFlight(l, s, entries) ==
  awaits' = [awaits EXCEPT ![l] = NextStream(s + 1, entries)] /\ UNCHANGED kick

(* Loop l goes on behind stream s; the watchdog's call returns with it.    *)
GoOn(l, s, entries) ==
  LET next == NextStream(s + 1, entries)
  IN  /\ awaits' = [awaits EXCEPT ![l] = next]
      /\ kick' = IF l = kick /\ next = 0 THEN NoLoop ELSE kick

(* The socket opens: its state is entered, over one another loop entered    *)
(* meanwhile, and its listener starts.                                     *)
Opens(l) ==
  /\ Running(l) /\ l \notin hung
  /\ LET s == awaits[l]
         entries == [active EXCEPT ![s] = "live"]
     IN  /\ active' = entries
         /\ leaked' = [leaked EXCEPT ![s] = IF active[s] = "live" THEN @ + 1 ELSE @]
         /\ GoOn(l, s, entries)
  /\ UNCHANGED <<hung, flags, history>>

(* WsConnection.connect cleared closed before the error: the error handler  *)
(* takes the branch of an open socket and the promise is left alone.       *)
Hangs(l) ==
  /\ "hangs" \in HandshakeFaults
  /\ Running(l) /\ l \notin hung
  /\ Fault
  /\ hung' = hung \cup {l}
  /\ UNCHANGED <<streams, awaits, kick, flags, subscribed, stopped, overtaken>>

(* A connection whose connect() rejects: the catch of startSubscription.   *)
Rejects(l) ==
  /\ "rejects" \in HandshakeFaults
  /\ Running(l) /\ l \notin hung
  /\ Fault
  /\ ScheduleReconnect
  /\ GoOn(l, awaits[l], active)
  /\ UNCHANGED <<streams, hung, isConnected, subscribed, stopped, overtaken>>

-----------------------------------------------------------------------------
(* Listeners                                                               *)

(* The listener of an entry, or one that lost its entry, is over. *)
ListenerEnds(s) ==
  \/ /\ active[s] = "live"
     /\ active' = [active EXCEPT ![s] = "ended"]
     /\ UNCHANGED leaked
  \/ /\ leaked[s] > 0
     /\ leaked' = [leaked EXCEPT ![s] = @ - 1]
     /\ UNCHANGED active

(* The iterator completes or throws: handleDisconnect. *)
StreamEnds(s) ==
  /\ Fault
  /\ ListenerEnds(s)
  /\ isConnected' = FALSE
  /\ ScheduleReconnect
  /\ UNCHANGED <<loops, subscribed, stopped, overtaken>>

(* A gap in the sequence numbers: the listener returns, which closes its    *)
(* socket; on the other streams the gap is only logged.                    *)
SequenceBreak(s) ==
  /\ s \in Critical
  /\ Fault
  /\ ListenerEnds(s)
  /\ ScheduleReconnect
  /\ UNCHANGED <<loops, isConnected, subscribed, stopped, overtaken>>

-----------------------------------------------------------------------------
(* Reconnection, watchdog and shutdown                                     *)

TimerFires ==
  /\ timer
  /\ timer' = FALSE
  /\ StopAll
  /\ Connected
  /\ StartLoop(NewLoop, active')
  /\ UNCHANGED <<hung, kick, subscribed, stopped, faults>>

(* No listener runs, and no loop that could still open a socket.           *)
Silent ==
  /\ \A s \in Streams : ~Live(s)
  /\ \A l \in Loops : Running(l) => l \in hung

(* disconnect() and connect() when nothing has arrived for too long: because *)
(* nothing can, or because sockets stay quiet or open slowly (a fault).     *)
Watchdog ==
  /\ subscribed /\ ~stopped
  /\ kick = NoLoop
  /\ IF Silent THEN UNCHANGED faults ELSE Fault
  /\ timer' = FALSE
  /\ StopAll
  /\ Connected
  /\ StartLoop(NewLoop, active')
  /\ kick' = NewLoop
  /\ UNCHANGED <<hung, subscribed, stopped>>

(* The disconnect() of the process's shutdown, which ends the watchdog too. *)
Shutdown ==
  /\ subscribed /\ ~stopped
  /\ stopped' = TRUE
  /\ timer' = FALSE
  /\ StopAll
  /\ isConnected' = FALSE /\ isReconnecting' = FALSE
  /\ UNCHANGED <<loops, reconnectAttempt, subscribed, faults>>

ConnectionNext ==
  \/ Subscribe \/ TimerFires \/ Watchdog \/ Shutdown
  \/ \E l \in Loops : Opens(l) \/ Hangs(l) \/ Rejects(l)
  \/ \E s \in Streams : StreamEnds(s) \/ SequenceBreak(s)

(* Handshakes settle unless they hang, the timer fires, and the interval    *)
(* that holds the watchdog runs every second.                              *)
ConnectionFairness ==
  /\ WF_connectionVars(Subscribe)
  /\ WF_connectionVars(TimerFires)
  /\ WF_connectionVars(Silent /\ Watchdog)
  /\ \A l \in Loops : WF_connectionVars(Opens(l))

-----------------------------------------------------------------------------
(* Properties                                                              *)

(* As long as the streams were never stopped under a loop that still awaited *)
(* a handshake, every stream has at most one listener, disconnect() leaves   *)
(* none behind, and entries whose listener ended wait for a reconnection.    *)
(* (A loop that is overtaken overwrites entries and opens sockets nobody     *)
(* closes.)                                                                *)
CleanUnlessOvertaken ==
  ~overtaken =>
    /\ \A s \in Streams : leaked[s] = 0
    /\ stopped => active = NoEntries
    /\ (\E s \in Streams : active[s] = "ended") => timer

(* However listeners end, breaks are detected and loops overtake each other, *)
(* in the end every stream has a listener again, unless a handshake hangs    *)
(* or the process stops.                                                   *)
StreamsComeBack ==
  \/ <>[](\A s \in Streams : Live(s))
  \/ <>(hung # {})
  \/ <>stopped

(* Market data is silent for good only behind a watchdog whose own           *)
(* reconnection hangs (or after the shutdown).                             *)
SilenceMeansStuckWatchdog ==
  []<>(~Silent) \/ <>[](kick \in hung) \/ <>stopped
=============================================================================
