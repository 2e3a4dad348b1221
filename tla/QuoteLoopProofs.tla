--------------------------- MODULE QuoteLoopProofs ---------------------------
(***************************************************************************)
(* Proofs about QuoteLoop, for every tick spacing and every interval the   *)
(* assumptions of the theorems allow.                                      *)
(***************************************************************************)
EXTENDS QuoteLoop, TLAPS

(* An attempt stamps both lastQuoteMs (every quoting tick does) and the new *)
(* order, so neither is ever younger than the attempt, up to the cap.       *)
AttemptIsOldest ==
  \A s \in Sides :
    attemptAge[s] # MinSpacing => attemptAge[s] >= quoteAge /\ attemptAge[s] >= order[s]

(* What the last intent says about mode and stamps.                        *)
IntentFacts ==
  /\ lastIntent = "QUOTE" => mode # "PAUSE" /\ quoteAge = 0
  /\ lastIntent = "CANCEL_ALL" => mode = "PAUSE"
  /\ lastIntent = "NONE" => cancelAllAge = CancelAllWithoutMs

(* Orders that outlive a PAUSE decision are due to a cancel_all attempt     *)
(* that is recent, and not more recent than the PAUSE itself.               *)
ThrottledPause ==
  (lastIntent = "CANCEL_ALL" /\ Tracked # {}) =>
    /\ cancelAllAge < CancelAllWithMs
    /\ cancelAllAge >= PauseMinDurationMs - pauseLeft

(* The inductive invariant.                                                *)
IInv == LoopTypeOK /\ PlacementSpacing /\ AttemptIsOldest /\ IntentFacts /\ ThrottledPause

(* Ageing a stamp keeps it in its range and never makes it younger.         *)
LEMMA OlderFacts ==
  ASSUME NEW cap \in Nat, NEW age \in 0 .. cap, NEW gap \in Nat
  PROVE  /\ Older(age, gap, cap) \in 0 .. cap
         /\ Older(age, gap, cap) >= age
         /\ Older(age, gap, cap) # cap => Older(age, gap, cap) = age + gap
         /\ age + gap >= cap => Older(age, gap, cap) = cap
  BY DEF Older

LEMMA MinSpacingFacts ==
  MinSpacing \in Nat /\ MinSpacing <= RefreshIntervalMs /\ MinSpacing <= AgeCap /\ AgeCap \in Nat
  BY IntervalAssumption DEF MinSpacing, AgeCap

LEMMA InitIInv == LoopInit => IInv
<1> SUFFICES ASSUME LoopInit PROVE IInv
  OBVIOUS
<1> USE IntervalAssumption, PauseMinAssumption, MinSpacingFacts DEF LoopInit
<1>1. LoopTypeOK
  BY DEF LoopTypeOK, Mode, AgeCap, NoOrder
<1>2. PlacementSpacing /\ AttemptIsOldest /\ IntentFacts /\ ThrottledPause
  BY DEF PlacementSpacing, AttemptIsOldest, IntentFacts, ThrottledPause
<1>3. QED
  BY <1>1, <1>2 DEF IInv

(* A tick that decides PAUSE.                                              *)
LEMMA PauseTickStep ==
  ASSUME IInv, NEW gap \in TickGaps, NEW risk \in RiskEvaluation, NEW reject \in SUBSET Sides,
         LoopTick(gap, risk, reject), mode' = "PAUSE"
  PROVE  IInv'
<1> DEFINE left == IF pauseLeft > gap THEN pauseLeft - gap ELSE 0
           age  == Older(cancelAllAge, gap, CancelAllWithoutMs)
<1>0. gap \in Nat /\ gap > 0
  BY IntervalAssumption
<1>1. /\ lastIntent' = "CANCEL_ALL"
      /\ pauseLeft' = IF mode # "PAUSE" THEN PauseMinDurationMs ELSE left
      /\ CancelAllTick(gap)
  BY DEF LoopTick
<1>2. /\ quoteAge' = Older(quoteAge, gap, RefreshIntervalMs)
      /\ attemptAge' = [s \in Sides |-> Older(attemptAge[s], gap, MinSpacing)]
      /\ attemptGap' = attemptGap
  BY <1>1 DEF CancelAllTick
<1>3. \/ /\ CancelAllDue(age)
         /\ cancelAllAge' = 0
         /\ order' = [s \in Sides |-> NoOrder]
         /\ moved' = {}
      \/ /\ ~CancelAllDue(age)
         /\ cancelAllAge' = age
         /\ order' = [s \in Sides |-> IF HasOrder(s) THEN Older(order[s], gap, AgeCap) ELSE NoOrder]
         /\ moved' = moved
  BY <1>1 DEF CancelAllTick
<1>4. age \in 0 .. CancelAllWithoutMs
  BY <1>0, OlderFacts, IntervalAssumption DEF IInv, LoopTypeOK
<1>5. \A s \in Sides : /\ order'[s] \in {NoOrder} \cup 0 .. AgeCap
                       /\ order'[s] # NoOrder => order[s] # NoOrder /\ order'[s] = Older(order[s], gap, AgeCap)
  <2> SUFFICES ASSUME NEW s \in Sides
               PROVE  /\ order'[s] \in {NoOrder} \cup 0 .. AgeCap
                      /\ order'[s] # NoOrder => order[s] # NoOrder /\ order'[s] = Older(order[s], gap, AgeCap)
    OBVIOUS
  <2>1. CASE HasOrder(s)
    <3>1. order[s] \in 0 .. AgeCap
      BY <2>1 DEF IInv, LoopTypeOK, HasOrder
    <3>2. Older(order[s], gap, AgeCap) \in 0 .. AgeCap
      BY <1>0, <3>1, OlderFacts, MinSpacingFacts
    <3>3. order'[s] \in {NoOrder, Older(order[s], gap, AgeCap)}
      BY <1>3, <2>1
    <3>4. QED
      BY <2>1, <3>2, <3>3 DEF HasOrder
  <2>2. CASE ~HasOrder(s)
    BY <1>3, <2>2
  <2>3. QED
    BY <2>1, <2>2
<1>6. LoopTypeOK'
  <2>1. left \in 0 .. PauseMinDurationMs
    BY <1>0, PauseMinAssumption DEF IInv, LoopTypeOK
  <2>2. quoteAge' \in 0 .. RefreshIntervalMs
    BY <1>0, <1>2, OlderFacts, IntervalAssumption DEF IInv, LoopTypeOK
  <2>3. attemptAge' \in [Sides -> 0 .. MinSpacing]
    BY <1>0, <1>2, OlderFacts, MinSpacingFacts DEF IInv, LoopTypeOK
  <2>4. order' \in [Sides -> {NoOrder} \cup 0 .. AgeCap]
    BY <1>3, <1>5
  <2>5. pauseLeft' \in 0 .. PauseMinDurationMs
    BY <1>1, <2>1, PauseMinAssumption
  <2>6. cancelAllAge' \in 0 .. CancelAllWithoutMs
    BY <1>3, <1>4, IntervalAssumption
  <2>7. QED
    BY <1>1, <1>2, <1>3, <2>2, <2>3, <2>4, <2>5, <2>6 DEF IInv, LoopTypeOK, Mode
<1>7. AttemptIsOldest'
  <2> SUFFICES ASSUME NEW s \in Sides, attemptAge'[s] # MinSpacing
               PROVE  attemptAge'[s] >= quoteAge' /\ attemptAge'[s] >= order'[s]
    BY DEF AttemptIsOldest
  <2>1. /\ attemptAge[s] \in 0 .. MinSpacing /\ quoteAge \in 0 .. RefreshIntervalMs
        /\ order[s] \in {NoOrder} \cup 0 .. AgeCap
    BY DEF IInv, LoopTypeOK
  <2>2. attemptAge'[s] = Older(attemptAge[s], gap, MinSpacing)
    BY <1>2
  <2>3. attemptAge'[s] = attemptAge[s] + gap /\ attemptAge[s] # MinSpacing
    BY <1>0, <2>1, <2>2, MinSpacingFacts DEF Older
  <2>4. attemptAge[s] >= quoteAge /\ attemptAge[s] >= order[s]
    BY <2>3 DEF IInv, AttemptIsOldest
  <2>5. quoteAge' <= quoteAge + gap
    BY <1>0, <1>2, <2>1, IntervalAssumption DEF Older
  <2>6. order'[s] <= order[s] + gap \/ order'[s] = NoOrder
    BY <1>0, <1>5, <2>1, MinSpacingFacts DEF Older, NoOrder
  <2>7. quoteAge' \in Int /\ order'[s] \in Int
    BY <1>5, <1>6, MinSpacingFacts DEF LoopTypeOK, NoOrder
  <2>8. QED
    BY <1>0, <2>1, <2>3, <2>4, <2>5, <2>6, <2>7 DEF NoOrder
<1>8. PlacementSpacing' /\ IntentFacts'
  BY <1>1, <1>2 DEF IInv, PlacementSpacing, IntentFacts
<1>9. ThrottledPause'
  <2> SUFFICES ASSUME Tracked' # {}
               PROVE  cancelAllAge' < CancelAllWithMs /\ cancelAllAge' >= PauseMinDurationMs - pauseLeft'
    BY DEF ThrottledPause
  <2>1. ~CancelAllDue(age) /\ cancelAllAge' = age
    BY <1>3 DEF Tracked, HasOrder
  <2>2. Tracked # {}
    BY <1>5 DEF Tracked, HasOrder
  <2>3. age < CancelAllWithMs
    BY <1>4, <2>1, <2>2, IntervalAssumption DEF CancelAllDue
  <2>4. age = cancelAllAge + gap /\ cancelAllAge \in Nat /\ cancelAllAge # CancelAllWithoutMs
    BY <1>0, <2>3, IntervalAssumption DEF Older, IInv, LoopTypeOK
  <2>5. CASE mode # "PAUSE"
    BY <1>1, <2>1, <2>3, <2>4, <2>5, <1>0, PauseMinAssumption
  <2>6. CASE mode = "PAUSE"
    <3>1. lastIntent = "CANCEL_ALL"
      BY <2>4, <2>6 DEF IInv, IntentFacts, LoopTypeOK
    <3>2. cancelAllAge >= PauseMinDurationMs - pauseLeft
      BY <2>2, <3>1 DEF IInv, ThrottledPause
    <3>3. pauseLeft \in 0 .. PauseMinDurationMs /\ pauseLeft' = left
      BY <1>1, <2>6 DEF IInv, LoopTypeOK
    <3>4. QED
      BY <1>0, <2>1, <2>3, <2>4, <3>2, <3>3, PauseMinAssumption
  <2>7. QED
    BY <2>5, <2>6
<1>10. QED
  BY <1>6, <1>7, <1>8, <1>9 DEF IInv

(* A quoting tick.  An attempt is due to an old lastQuoteMs or to an old    *)
(* order, and then the previous attempt is at least as old.                *)
LEMMA QuoteTickStep ==
  ASSUME IInv, NEW gap \in TickGaps, NEW risk \in RiskEvaluation, NEW reject \in SUBSET Sides,
         LoopTick(gap, risk, reject), mode' # "PAUSE"
  PROVE  IInv'
<1> DEFINE planned == PlannedSides(gap)
<1>0. gap \in Nat /\ gap > 0
  BY IntervalAssumption
<1>1. /\ lastIntent' = "QUOTE" /\ mode' \in Mode /\ pauseLeft' = 0
      /\ QuoteTick(gap, reject)
  BY DEF LoopTick, DetermineNextMode, Mode
<1>2. /\ reject \subseteq planned
      /\ order' = [s \in Sides |->
           IF s \in reject THEN NoOrder
           ELSE IF s \in planned THEN 0
           ELSE IF HasOrder(s) THEN Older(order[s], gap, AgeCap) ELSE NoOrder]
      /\ moved' = moved \ planned
      /\ quoteAge' = 0
      /\ attemptAge' = [s \in Sides |-> IF s \in planned THEN 0 ELSE Older(attemptAge[s], gap, MinSpacing)]
      /\ attemptGap' = [s \in Sides |->
           IF s \in planned THEN Older(attemptAge[s], gap, MinSpacing) ELSE attemptGap[s]]
      /\ cancelAllAge' = Older(cancelAllAge, gap, CancelAllWithoutMs)
  BY <1>1 DEF QuoteTick
<1> HIDE DEF planned
<1>3. ASSUME NEW s \in Sides
      PROVE  /\ attemptAge[s] \in 0 .. MinSpacing
             /\ order[s] \in {NoOrder} \cup 0 .. AgeCap
             /\ Older(attemptAge[s], gap, MinSpacing) \in 0 .. MinSpacing
             /\ order[s] # NoOrder => Older(order[s], gap, AgeCap) \in 0 .. AgeCap
  BY <1>0, OlderFacts, MinSpacingFacts DEF IInv, LoopTypeOK, NoOrder
<1>4. LoopTypeOK'
  <2>1. order' \in [Sides -> {NoOrder} \cup 0 .. AgeCap]
    BY <1>2, <1>3, MinSpacingFacts DEF HasOrder
  <2>2. attemptAge' \in [Sides -> 0 .. MinSpacing] /\ attemptGap' \in [Sides -> 0 .. MinSpacing]
    BY <1>2, <1>3, MinSpacingFacts DEF IInv, LoopTypeOK
  <2>3. cancelAllAge' \in 0 .. CancelAllWithoutMs
    BY <1>0, <1>2, OlderFacts, IntervalAssumption DEF IInv, LoopTypeOK
  <2>4. pauseLeft' \in 0 .. PauseMinDurationMs /\ quoteAge' \in 0 .. RefreshIntervalMs
    BY <1>1, <1>2, PauseMinAssumption, IntervalAssumption
  <2>5. moved' \subseteq Sides
    BY <1>2 DEF IInv, LoopTypeOK
  <2>6. QED
    BY <1>1, <2>1, <2>2, <2>3, <2>4, <2>5 DEF LoopTypeOK
<1>5. AttemptIsOldest'
  <2> SUFFICES ASSUME NEW s \in Sides, attemptAge'[s] # MinSpacing
               PROVE  attemptAge'[s] >= quoteAge' /\ attemptAge'[s] >= order'[s]
    BY DEF AttemptIsOldest
  <2>1. CASE s \in planned
    BY <1>2, <2>1 DEF NoOrder
  <2>2. CASE s \notin planned
    <3>1. attemptAge'[s] = Older(attemptAge[s], gap, MinSpacing) /\ s \notin reject
      BY <1>2, <2>2
    <3>2. attemptAge'[s] = attemptAge[s] + gap /\ attemptAge[s] # MinSpacing
      BY <1>0, <1>3, <3>1, MinSpacingFacts DEF Older
    <3>3. attemptAge[s] >= order[s]
      BY <3>2 DEF IInv, AttemptIsOldest
    <3>4. order'[s] = IF HasOrder(s) THEN Older(order[s], gap, AgeCap) ELSE NoOrder
      BY <1>2, <2>2, <3>1
    <3>5. QED
      BY <1>0, <1>2, <1>3, <3>2, <3>3, <3>4, MinSpacingFacts DEF Older, HasOrder, NoOrder
  <2>3. QED
    BY <2>1, <2>2
<1>6. PlacementSpacing'
  <2> SUFFICES ASSUME NEW s \in Sides PROVE attemptGap'[s] = MinSpacing
    BY DEF PlacementSpacing
  <2>1. CASE s \in planned
    <3>1. attemptGap'[s] = Older(attemptAge[s], gap, MinSpacing)
      BY <1>2, <2>1
    <3>2. quoteAge + gap >= RefreshIntervalMs \/ (HasOrder(s) /\ order[s] + gap > StaleCancelMs)
      BY <2>1 DEF planned, PlannedSides, SidePlan, CanRefresh, IsOrderStale
    <3>3. attemptAge[s] # MinSpacing => attemptAge[s] >= quoteAge /\ attemptAge[s] >= order[s]
      BY DEF IInv, AttemptIsOldest
    <3>4. quoteAge \in Nat
      BY IntervalAssumption DEF IInv, LoopTypeOK
    <3>5. attemptAge[s] + gap >= MinSpacing
      BY <1>0, <1>3, <3>2, <3>3, <3>4, MinSpacingFacts, IntervalAssumption DEF AgeCap, HasOrder, NoOrder
    <3>6. QED
      BY <1>0, <1>3, <3>1, <3>5, OlderFacts, MinSpacingFacts
  <2>2. CASE s \notin planned
    BY <1>2, <2>2 DEF IInv, PlacementSpacing
  <2>3. QED
    BY <2>1, <2>2
<1>7. IntentFacts' /\ ThrottledPause'
  BY <1>1, <1>2 DEF IntentFacts, ThrottledPause, LoopTick
<1>8. QED
  BY <1>4, <1>5, <1>6, <1>7 DEF IInv

(* Fills and price moves.                                                  *)
LEMMA BookStep ==
  ASSUME IInv, (\E s \in Sides : Fill(s) \/ PriceMoves(s)) \/ UNCHANGED loopVars
  PROVE  IInv'
<1> USE DEF IInv
<1>1. ASSUME NEW s \in Sides, Fill(s)
      PROVE  IInv'
  <2>1. /\ order' = [order EXCEPT ![s] = NoOrder] /\ moved' = moved \ {s}
        /\ UNCHANGED <<mode, pauseLeft, quoteAge, cancelAllAge, lastIntent, attemptAge, attemptGap>>
    BY <1>1 DEF Fill, attempts
  <2>2. LoopTypeOK'
    BY <2>1 DEF LoopTypeOK
  <2>3. \A r \in Sides : order'[r] = order[r] \/ order'[r] = NoOrder
    BY <2>1 DEF LoopTypeOK
  <2>4. AttemptIsOldest'
    BY <2>1, <2>3, MinSpacingFacts DEF AttemptIsOldest, LoopTypeOK, NoOrder
  <2>5. Tracked' # {} => Tracked # {}
    BY <2>3 DEF Tracked, HasOrder
  <2>6. PlacementSpacing' /\ IntentFacts' /\ ThrottledPause'
    BY <2>1, <2>5 DEF PlacementSpacing, IntentFacts, ThrottledPause
  <2>7. QED
    BY <2>2, <2>4, <2>6
<1>2. ASSUME NEW s \in Sides, PriceMoves(s)
      PROVE  IInv'
  BY <1>2 DEF PriceMoves, attempts, LoopTypeOK, AttemptIsOldest, PlacementSpacing, IntentFacts,
              ThrottledPause, Tracked, HasOrder
<1>3. CASE UNCHANGED loopVars
  BY <1>3 DEF loopVars, book, attempts, LoopTypeOK, AttemptIsOldest, PlacementSpacing, IntentFacts,
              ThrottledPause, Tracked, HasOrder
<1>4. QED
  BY <1>1, <1>2, <1>3

LEMMA StepIInv == IInv /\ [LoopNext]_loopVars => IInv'
  BY PauseTickStep, QuoteTickStep, BookStep DEF LoopNext, SomeTick

LEMMA AlwaysIInv == LoopSpec => []IInv
  BY InitIInv, StepIInv, PTL DEF LoopSpec

(* Every variable stays in its type, and every age within its cap.          *)
THEOREM TypeCorrect == LoopSpec => []LoopTypeOK
<1>1. IInv => LoopTypeOK
  BY DEF IInv
<1>2. QED
  BY <1>1, AlwaysIInv, PTL

(* Placements on a side keep their distance, whatever the tick spacing.     *)
THEOREM PlacementsSpaced == LoopSpec => []PlacementSpacing
<1>1. IInv => PlacementSpacing
  BY DEF IInv
<1>2. QED
  BY <1>1, AlwaysIInv, PTL

(* If the minimum pause is longer than the cancel_all throttle by a tick,   *)
(* the book is empty when quoting resumes.                                 *)
THEOREM BookEmptyAfterPause ==
  ASSUME \A gap \in TickGaps : CancelAllWithMs + gap <= PauseMinDurationMs
  PROVE  LoopSpec => PauseEndsFlat
<1> DEFINE Flat == (lastIntent = "CANCEL_ALL" /\ lastIntent' = "QUOTE") => Tracked = {}
<1>1. IInv /\ [LoopNext]_loopVars => [Flat]_loopVars
  <2> SUFFICES ASSUME IInv, LoopNext, lastIntent = "CANCEL_ALL", lastIntent' = "QUOTE", Tracked # {}
               PROVE  FALSE
    OBVIOUS
  <2>1. PICK gap \in TickGaps, risk \in RiskEvaluation, reject \in SUBSET Sides : LoopTick(gap, risk, reject)
    BY DEF LoopNext, SomeTick, Fill, PriceMoves
  <2>2. mode = "PAUSE" /\ cancelAllAge < CancelAllWithMs /\ cancelAllAge >= PauseMinDurationMs - pauseLeft
    BY DEF IInv, IntentFacts, ThrottledPause
  <2>3. gap \in Nat /\ pauseLeft \in Nat /\ cancelAllAge \in Nat
    BY IntervalAssumption, PauseMinAssumption DEF IInv, LoopTypeOK
  <2>4. pauseLeft > gap
    BY <2>2, <2>3, IntervalAssumption, PauseMinAssumption
  <2>5. (IF pauseLeft > gap THEN pauseLeft - gap ELSE 0) # 0
    BY <2>3, <2>4
  <2>6. mode' = DetermineNextMode(mode, risk, (IF pauseLeft > gap THEN pauseLeft - gap ELSE 0) = 0)
    BY <2>1 DEF LoopTick
  <2>7. mode' = "PAUSE"
    BY <2>2, <2>5, <2>6 DEF DetermineNextMode
  <2>8. QED
    BY <2>1, <2>7 DEF LoopTick
<1>2. QED
  BY <1>1, AlwaysIInv, PTL DEF LoopSpec, PauseEndsFlat

(* What contradicts MissingSideQuoted: a side without an order has none     *)
(* after the next quoting tick either.                                     *)
MissingStaysMissing ==
  [][\A s \in Sides : (lastIntent = "QUOTE" /\ ~HasOrder(s) /\ lastIntent' = "QUOTE") => ~HasOrder(s)']_loopVars

(* The cause of the disagreement with 7.4: when ticks are closer together  *)
(* than refreshIntervalMs, a side that is missing while the bot quotes is   *)
(* never placed again before a PAUSE, whatever the other intervals are and  *)
(* whatever the market and the exchange do.                                *)
THEOREM MissingSideStarves ==
  ASSUME \A gap \in TickGaps : gap < RefreshIntervalMs
  PROVE  LoopSpec => MissingStaysMissing
<1> DEFINE Stays == \A s \in Sides :
             (lastIntent = "QUOTE" /\ ~HasOrder(s) /\ lastIntent' = "QUOTE") => ~HasOrder(s)'
<1>1. IInv /\ [LoopNext]_loopVars => [Stays]_loopVars
  <2> SUFFICES ASSUME IInv, LoopNext, NEW s \in Sides, lastIntent = "QUOTE", ~HasOrder(s), lastIntent' = "QUOTE"
               PROVE  ~HasOrder(s)'
    BY DEF loopVars
  <2>1. CASE \E r \in Sides : Fill(r) \/ PriceMoves(r)
    BY <2>1 DEF Fill, PriceMoves, HasOrder, IInv, LoopTypeOK
  <2>2. ASSUME NEW gap \in TickGaps, NEW risk \in RiskEvaluation, NEW reject \in SUBSET Sides,
               LoopTick(gap, risk, reject)
        PROVE  ~HasOrder(s)'
    <3>1. quoteAge = 0
      BY DEF IInv, IntentFacts
    <3>2. ~CanRefresh(quoteAge + gap, RefreshIntervalMs)
      BY <3>1, IntervalAssumption DEF CanRefresh
    <3>3. s \notin PlannedSides(gap)
      BY <3>2 DEF PlannedSides, SidePlan
    <3>4. QuoteTick(gap, reject)
      BY <2>2 DEF LoopTick
    <3>5. QED
      BY <3>3, <3>4 DEF QuoteTick, HasOrder
  <2>3. QED
    BY <2>1, <2>2 DEF LoopNext, SomeTick
<1>2. QED
  BY <1>1, AlwaysIInv, PTL DEF LoopSpec, MissingStaysMissing
=============================================================================
