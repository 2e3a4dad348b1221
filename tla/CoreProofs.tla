----------------------------- MODULE CoreProofs -----------------------------
(***************************************************************************)
(* Proofs about the program the executor and the backtest share: about     *)
(* StrategyEngine, for every minimum pause and every set of inputs, and    *)
(* about Backtest, for every set of rows, all parameters and all times.    *)
(***************************************************************************)
EXTENDS StrategyEngine, Backtest, FiniteSetTheorems, SequenceTheorems, WellFoundedInduction, TLAPS

(* What pausedAt means: in PAUSE it is the entry of the current PAUSE, and  *)
(* outside PAUSE its minimum duration is over.  The clock never runs back,  *)
(* so the second part survives until the next PAUSE.                       *)
PauseHistory ==
  /\ state.mode = "PAUSE" => pausedAt = state.modeSinceMs
  /\ (state.mode # "PAUSE" /\ pausedAt # Undefined) => now >= pausedAt + PauseMinDurationMs

(* The inductive invariant.                                                *)
IInv == TypeOK /\ PauseDeadline /\ PauseHistory /\ QuoteOutsidePauseWindow

(* The risk a tick computes never asks for PAUSE and DEFENSIVE at once.     *)
LEMMA RiskType ==
  ASSUME NEW f \in FeatureInputs, NEW pos \in PositionInputs, NEW p \in ParamInputs
  PROVE  EvaluateRisk(f, pos, p) \in RiskEvaluation
<1>1. HardPause(f, pos, p) \in BOOLEAN
  BY InputAssumption DEF HardPause
<1>2. SoftRisk(f) \in BOOLEAN
  BY DEF SoftRisk
<1>3. QED
  BY <1>1, <1>2 DEF EvaluateRisk, RiskEvaluation

(* What one decision does to a well-formed state: the mode machine of       *)
(* determineNextMode together with the time stamps of decide.              *)
LEMMA DecideFacts ==
  ASSUME NEW t \in Int, NEW s \in StrategyState, NEW risk \in RiskEvaluation,
         DeadlineMatches(s)
  PROVE  LET out == Decide(t, s, risk)
             n   == out.nextState
         IN  /\ n \in StrategyState
             /\ DeadlineMatches(n)
             /\ out.intent = IF n.mode = "PAUSE" THEN "CANCEL_ALL" ELSE "QUOTE"
             /\ n.mode # "PAUSE" => n.lastQuoteMs = t
             /\ n.mode = s.mode => n.modeSinceMs = s.modeSinceMs
             /\ n.mode # s.mode => n.modeSinceMs = t
             /\ (s.mode = "PAUSE" /\ n.mode # "PAUSE") =>
                   /\ n.mode = "DEFENSIVE"
                   /\ t >= s.modeSinceMs + PauseMinDurationMs
<1> DEFINE elapsed == IsPauseDurationElapsed(s.pauseUntilMs, t)
           next    == DetermineNextMode(s.mode, risk, elapsed)
           base    == NextModeState(s, next, t)
           out     == Decide(t, s, risk)
           n       == out.nextState
<1>1. next \in Mode
  BY DEF DetermineNextMode, Mode
<1>2. s.mode \in Mode /\ s.modeSinceMs \in Int /\ s.pauseUntilMs \in OptTime /\ s.lastQuoteMs \in OptTime
  BY DEF StrategyState
<1>3. s.mode = "PAUSE" /\ next # "PAUSE" => next = "DEFENSIVE" /\ t >= s.modeSinceMs + PauseMinDurationMs
  <2> SUFFICES ASSUME s.mode = "PAUSE", next # "PAUSE"
               PROVE  next = "DEFENSIVE" /\ t >= s.modeSinceMs + PauseMinDurationMs
    OBVIOUS
  <2>1. elapsed /\ next = "DEFENSIVE"
    BY DEF DetermineNextMode
  <2>2. s.pauseUntilMs = s.modeSinceMs + PauseMinDurationMs
    BY DEF DeadlineMatches
  <2>3. s.pauseUntilMs # Undefined
    BY <1>2, <2>2, PauseMinAssumption, UndefinedAssumption
  <2>4. QED
    BY <2>1, <2>2, <2>3 DEF IsPauseDurationElapsed
<1>4. base \in StrategyState
  BY <1>1, <1>2, PauseMinAssumption DEF NextModeState, CalculatePauseUntil, StrategyState, OptTime
<1>5. base.mode = next /\ DeadlineMatches(base)
  <2>1. CASE next # s.mode
    BY <2>1 DEF NextModeState, DeadlineMatches, CalculatePauseUntil
  <2>2. CASE next = s.mode
    <3>1. base = [s EXCEPT !.pauseUntilMs =
                    IF next = "PAUSE" /\ @ = Undefined THEN CalculatePauseUntil(t) ELSE @]
      BY <2>2 DEF NextModeState
    <3>2. next = "PAUSE" => s.pauseUntilMs # Undefined
      BY <1>2, <2>2, PauseMinAssumption, UndefinedAssumption DEF DeadlineMatches
    <3>3. base = s
      BY <3>1, <3>2 DEF StrategyState
    <3>4. QED
      BY <2>2, <3>3
  <2>3. QED
    BY <2>1, <2>2
<1>6. (next = s.mode => base.modeSinceMs = s.modeSinceMs) /\ (next # s.mode => base.modeSinceMs = t)
  BY DEF NextModeState, StrategyState
<1>7. CASE next = "PAUSE"
  BY <1>3, <1>4, <1>5, <1>6, <1>7 DEF Decide
<1>8. CASE next # "PAUSE"
  <2> DEFINE q == [base EXCEPT !.lastQuoteMs = t]
  <2>1. n = q /\ out.intent = "QUOTE"
    BY <1>8 DEF Decide
  <2>2. /\ q \in StrategyState
        /\ q.mode = base.mode
        /\ q.lastQuoteMs = t
        /\ q.modeSinceMs = base.modeSinceMs
        /\ q.pauseUntilMs = base.pauseUntilMs
    BY <1>4 DEF StrategyState, OptTime
  <2> HIDE DEF n, q, base
  <2>3. DeadlineMatches(q)
    BY <1>5, <2>2 DEF DeadlineMatches
  <2>4. /\ n.mode = s.mode => n.modeSinceMs = s.modeSinceMs
        /\ n.mode # s.mode => n.modeSinceMs = t
    BY <1>5, <1>6, <2>1, <2>2
  <2>5. QED
    BY <1>3, <1>5, <1>8, <2>1, <2>2, <2>3, <2>4 DEF n
<1>9. QED
  BY <1>7, <1>8

(* A restart begins with a state that has its own deadline.                *)
LEMMA RestoreFacts ==
  /\ \A row \in SnapshotSet : DeadlineMatches(row) =>
       Restored(row) \in StrategyState /\ DeadlineMatches(Restored(row))
  /\ \A t \in Int : CreateInitialState(t) \in StrategyState /\ DeadlineMatches(CreateInitialState(t))
<1>1. ASSUME NEW row \in SnapshotSet, DeadlineMatches(row)
      PROVE  Restored(row) \in StrategyState /\ DeadlineMatches(Restored(row))
  BY <1>1 DEF Restored, SnapshotSet, StrategyState, OptTime, DeadlineMatches
<1>2. ASSUME NEW t \in Int
      PROVE  CreateInitialState(t) \in StrategyState /\ DeadlineMatches(CreateInitialState(t))
  BY PauseMinAssumption DEF CreateInitialState, CalculatePauseUntil, StrategyState, OptTime, Mode, DeadlineMatches
<1>3. QED
  BY <1>1, <1>2

(* One tick keeps the inductive invariant and leaves PAUSE only as          *)
(* PauseLeftSafely says.                                                   *)
LEMMA TickStep ==
  ASSUME IInv, NEW risk \in RiskEvaluation, TickWith(risk)
  PROVE  /\ IInv'
         /\ (state.mode = "PAUSE" /\ state'.mode # "PAUSE") =>
               /\ state'.mode = "DEFENSIVE"
               /\ state'.modeSinceMs >= state.modeSinceMs + PauseMinDurationMs
<1>1. now \in Int /\ state \in StrategyState /\ DeadlineMatches(state)
  BY DEF IInv, TypeOK, PauseDeadline
<1>2. /\ state' \in StrategyState
      /\ DeadlineMatches(state)'
      /\ intent' = IF state'.mode = "PAUSE" THEN "CANCEL_ALL" ELSE "QUOTE"
      /\ state'.mode # "PAUSE" => state'.lastQuoteMs = now
      /\ state'.mode = state.mode => state'.modeSinceMs = state.modeSinceMs
      /\ state'.mode # state.mode => state'.modeSinceMs = now
      /\ (state.mode = "PAUSE" /\ state'.mode # "PAUSE") =>
            /\ state'.mode = "DEFENSIVE"
            /\ now >= state.modeSinceMs + PauseMinDurationMs
  BY <1>1, DecideFacts DEF TickWith, DeadlineMatches
<1>3. /\ now' = now /\ saved' = saved
      /\ pausedAt' = IF state.mode # "PAUSE" /\ state'.mode = "PAUSE" THEN now ELSE pausedAt
  BY DEF TickWith
<1>4. TypeOK'
  BY <1>2, <1>3 DEF IInv, TypeOK, OptTime
<1>5. PauseDeadline'
  BY <1>2, <1>3 DEF IInv, PauseDeadline, DeadlineMatches
<1>6. PauseHistory'
  BY <1>2, <1>3, PauseMinAssumption DEF IInv, TypeOK, PauseHistory, StrategyState, OptTime
<1>7. QuoteOutsidePauseWindow'
  BY <1>2, <1>3, <1>6 DEF QuoteOutsidePauseWindow, PauseHistory
<1>8. QED
  BY <1>2, <1>4, <1>5, <1>6, <1>7 DEF IInv

(* The steps that are no tick keep the inductive invariant.                *)
LEMMA OtherSteps ==
  ASSUME IInv, Advance \/ Persist \/ Restart \/ UNCHANGED vars
  PROVE  IInv'
<1> USE DEF IInv
<1>1. CASE Advance
  BY <1>1, PauseMinAssumption
  DEF Advance, TypeOK, PauseDeadline, DeadlineMatches, PauseHistory, QuoteOutsidePauseWindow, OptTime
<1>2. CASE Persist
  <2>1. Snapshot(state) \in SnapshotSet /\ DeadlineMatches(Snapshot(state))
    BY DEF TypeOK, PauseDeadline, Snapshot, SnapshotSet, StrategyState, DeadlineMatches
  <2>2. QED
    BY <1>2, <2>1
    DEF Persist, TypeOK, PauseDeadline, DeadlineMatches, PauseHistory, QuoteOutsidePauseWindow
<1>3. CASE Restart
  <2>1. now \in Int /\ (saved # Undefined => saved \in SnapshotSet /\ DeadlineMatches(saved))
    BY DEF TypeOK, PauseDeadline
  <2>2. state' \in StrategyState /\ DeadlineMatches(state)'
    BY <1>3, <2>1, RestoreFacts DEF Restart, DeadlineMatches
  <2>3. now' = now /\ saved' = saved /\ intent' = "NONE" /\ pausedAt' = PauseEntry(state')
    BY <1>3 DEF Restart
  <2>4. TypeOK'
    BY <2>2, <2>3 DEF TypeOK, PauseEntry, StrategyState, OptTime
  <2>5. PauseDeadline' /\ PauseHistory' /\ QuoteOutsidePauseWindow'
    BY <2>2, <2>3 DEF PauseDeadline, DeadlineMatches, PauseHistory, PauseEntry, QuoteOutsidePauseWindow
  <2>6. QED
    BY <2>4, <2>5
<1>4. CASE UNCHANGED vars
  BY <1>4 DEF vars, TypeOK, PauseDeadline, DeadlineMatches, PauseHistory, QuoteOutsidePauseWindow
<1>5. QED
  BY <1>1, <1>2, <1>3, <1>4

(* Every tick of the specification is a tick with a well-typed risk.       *)
LEMMA TickIsTyped == Tick => \E risk \in RiskEvaluation : TickWith(risk)
  BY RiskType DEF Tick, PossibleRisk

LEMMA InitIInv == Init => IInv
<1> SUFFICES ASSUME Init PROVE IInv
  OBVIOUS
<1>1. state = CreateInitialState(0) /\ now = 0 /\ saved = Undefined /\ intent = "NONE"
      /\ pausedAt = PauseEntry(state)
  BY DEF Init
<1>2. state \in StrategyState /\ DeadlineMatches(state)
  BY <1>1, RestoreFacts
<1>3. QED
  BY <1>1, <1>2
  DEF IInv, TypeOK, PauseDeadline, DeadlineMatches, PauseHistory, QuoteOutsidePauseWindow, PauseEntry,
      StrategyState, OptTime

LEMMA StepIInv == IInv /\ [Next]_vars => IInv'
  BY TickIsTyped, TickStep, OtherSteps DEF Next

(* The inductive invariant holds in every reachable state.                 *)
LEMMA AlwaysIInv == Spec => []IInv
  BY InitIInv, StepIInv, PTL DEF Spec

(* State, snapshot and history keep their types.                           *)
THEOREM TypeCorrect == Spec => []TypeOK
<1>1. IInv => TypeOK
  BY DEF IInv
<1>2. QED
  BY <1>1, AlwaysIInv, PTL

(* Every PAUSE, current or persisted, has the deadline of its own entry.    *)
THEOREM PauseDeadlineHolds == Spec => []PauseDeadline
<1>1. IInv => PauseDeadline
  BY DEF IInv
<1>2. QED
  BY <1>1, AlwaysIInv, PTL

(* No process quotes inside the minimum duration of a PAUSE it was in.      *)
THEOREM NoQuoteInPauseWindow == Spec => []QuoteOutsidePauseWindow
<1>1. IInv => QuoteOutsidePauseWindow
  BY DEF IInv
<1>2. QED
  BY <1>1, AlwaysIInv, PTL

(* A running process leaves PAUSE only for DEFENSIVE and only after the     *)
(* minimum duration.                                                       *)
THEOREM PauseExit == Spec => PauseLeftSafely
<1> DEFINE Exit == (state.mode = "PAUSE" /\ state'.mode # "PAUSE" /\ intent' # "NONE")
                     => /\ state'.mode = "DEFENSIVE"
                        /\ state'.modeSinceMs >= state.modeSinceMs + PauseMinDurationMs
<1>1. IInv /\ [Next]_vars => [Exit]_vars
  <2> SUFFICES ASSUME IInv, Next PROVE Exit
    OBVIOUS
  <2>1. CASE Tick
    BY <2>1, TickIsTyped, TickStep
  <2>2. CASE Advance \/ Persist
    BY <2>2 DEF Advance, Persist
  <2>3. CASE Restart
    BY <2>3 DEF Restart
  <2>4. QED
    BY <2>1, <2>2, <2>3 DEF Next
<1>2. QED
  BY <1>1, AlwaysIInv, PTL DEF Spec, PauseLeftSafely

-----------------------------------------------------------------------------
(* The backtest: induction and folds                                       *)
(*                                                                         *)
(* The library's induction theorems take an operator as a parameter; these *)
(* take a set.  A fold of the community modules is a recursive function on *)
(* sets of positions: FoldExists shows that there is one, FoldPath that it *)
(* goes through the positions one by one, so that a fold over Append(s, x) *)
(* is one step more than the fold over s.                                  *)

(* Induction over the natural numbers, for a set. *)
LEMMA SetInduction ==
  ASSUME NEW S \in SUBSET Nat, 0 \in S, \A n \in S : n + 1 \in S
  PROVE  S = Nat
<1> DEFINE left == Nat \ S
<1> SUFFICES ASSUME left # {} PROVE FALSE
  OBVIOUS
<1>1. left \in SUBSET Nat
  OBVIOUS
<1>2. PICK n \in left : \A k \in left : ~(<<k, n>> \in OpToRel(<, Nat))
  BY <1>1, NatLessThanWellFounded, WFMin
<1>3. n \in Nat /\ n # 0 /\ n - 1 \in Nat /\ n - 1 < n
  OBVIOUS
<1>4. <<n - 1, n>> \in OpToRel(<, Nat)
  <2> DEFINE w == <<n - 1, n>>
  <2>1. w \in Nat \X Nat /\ w[1] = n - 1 /\ w[2] = n
    BY <1>3
  <2>2. w \in {x \in Nat \X Nat : x[1] < x[2]}
    BY <1>3, <2>1
  <2>3. QED
    BY <2>2 DEF OpToRel
<1>5. n - 1 \in S
  BY <1>2, <1>3, <1>4
<1>6. (n - 1) + 1 = n
  BY <1>3
<1>7. QED
  BY <1>5, <1>6

(* The function on sets a fold is defined by: F[i][v] is what becomes of    *)
(* the value v with the number i.                                          *)
FoldEquation(it, n, base, F, choice) ==
  \A s \in SUBSET (1 .. n) :
    it[s] = IF s = {} THEN base ELSE F[choice[s]][it[s \ {choice[s]}]]

(* The values a fold from the left goes through.                           *)
FoldSteps(p, n, base, F) == p[0] = base /\ \A k \in 1 .. n : p[k] = F[k][p[k - 1]]

(* The function on sets, along the sets 1 .. k.                            *)
FoldIter(it, n, V, base, F) ==
  /\ it[{}] = base
  /\ \A k \in 1 .. n : it[1 .. (k - 1)] \in V => it[1 .. k] = F[k][it[1 .. (k - 1)]]

(* A fold over the numbers 1 to n, taken in the order of choice, exists:    *)
(* F[i][v] is what it makes of the value v and the number i.               *)
LEMMA FoldExists ==
  ASSUME NEW n \in Nat, NEW V, NEW base \in V, NEW F, NEW choice,
         \A i \in 1 .. n : \A v \in V : F[i][v] \in V,
         \A s \in SUBSET (1 .. n) : s # {} => choice[s] \in s
  PROVE  \E it \in [SUBSET (1 .. n) -> V] : FoldEquation(it, n, base, F, choice)
<1> DEFINE Sets == SUBSET (1 .. n)
           Next1(it, s) == IF s = {} THEN base ELSE F[choice[s]][it[s \ {choice[s]}]]
           Upto(it, k) == \A s \in Sets : Cardinality(s) <= k => it[s] = Next1(it, s)
           Good == {k \in Nat : \E it \in [Sets -> V] : Upto(it, k)}
<1>1. \A s \in Sets : IsFiniteSet(s) /\ Cardinality(s) \in Nat /\ Cardinality(s) <= n
  <2> TAKE s \in Sets
  <2>1. IsFiniteSet(1 .. n) /\ Cardinality(1 .. n) = n
    BY FS_Interval
  <2>2. IsFiniteSet(s) /\ Cardinality(s) <= Cardinality(1 .. n)
    BY <2>1, FS_Subset
  <2>3. Cardinality(s) \in Nat
    BY <2>2, FS_CardinalityType
  <2>4. QED
    BY <2>1, <2>2, <2>3
<1>2. \A s \in Sets : s # {} => /\ choice[s] \in 1 .. n /\ s \ {choice[s]} \in Sets
                               /\ Cardinality(s \ {choice[s]}) = Cardinality(s) - 1
  BY <1>1, FS_RemoveElement
<1>3. \A s \in Sets : Cardinality(s) = 0 => s = {}
  BY <1>1, FS_EmptySet
<1>4. 0 \in Good
  <2> DEFINE it == [s \in Sets |-> base]
  <2>1. it \in [Sets -> V]
    OBVIOUS
  <2>2. Upto(it, 0)
    BY <1>1, <1>3
  <2>3. QED
    BY <2>1, <2>2
<1>5. ASSUME NEW k \in Good PROVE k + 1 \in Good
  <2>1. PICK it \in [Sets -> V] : Upto(it, k)
    OBVIOUS
  <2> DEFINE jt == [s \in Sets |-> IF Cardinality(s) <= k THEN it[s] ELSE Next1(it, s)]
  <2>2. ASSUME NEW s \in Sets PROVE Next1(it, s) \in V
    BY <1>2
  <2>3. jt \in [Sets -> V]
    BY <2>2
  <2>4. ASSUME NEW s \in Sets, Cardinality(s) <= k + 1 PROVE jt[s] = Next1(jt, s)
    <3>1. jt[s] = Next1(it, s)
      BY <2>1
    <3>2. CASE s = {}
      BY <3>1, <3>2
    <3>3. CASE s # {}
      <4> DEFINE r == s \ {choice[s]}
      <4>1. r \in Sets /\ Cardinality(r) = Cardinality(s) - 1
        BY <1>2, <3>3
      <4> HIDE DEF r
      <4>5. Cardinality(s) \in Nat /\ Cardinality(s) <= k + 1
        BY <1>1, <2>4
      <4>6. Cardinality(r) <= k
        BY <4>1, <4>5
      <4>2. jt[r] = it[r]
        BY <4>1, <4>6
      <4>3. QED
        BY <3>1, <3>3, <4>2 DEF r
    <3>4. QED
      BY <3>2, <3>3
  <2>5. Upto(jt, k + 1)
    BY <2>4
  <2> HIDE DEF jt, Upto
  <2>6. QED
    BY <2>3, <2>5
<1>6. Good = Nat
  <2>1. Good \in SUBSET Nat
    OBVIOUS
  <2> HIDE DEF Good
  <2>2. QED
    BY <1>4, <1>5, <2>1, SetInduction
<1>7. PICK it \in [Sets -> V] : Upto(it, n)
  BY <1>6
<1>8. \A s \in Sets : it[s] = Next1(it, s)
  BY <1>1, <1>7
<1>9. QED
  BY <1>8 DEF FoldEquation

(* The greatest number of 1 .. k is k, and without it 1 .. k - 1 is left. *)
LEMMA GreatestOfInterval ==
  ASSUME NEW k \in Nat, k > 0
  PROVE  Max(1 .. k) = k /\ (1 .. k) \ {k} = 1 .. (k - 1)
<1>1. k \in 1 .. k /\ \A i \in 1 .. k : k >= i
  OBVIOUS
<1>2. Max(1 .. k) \in 1 .. k /\ \A i \in 1 .. k : Max(1 .. k) >= i
  BY <1>1 DEF Max
<1>3. QED
  BY <1>1, <1>2

(* An initial interval is one of the sets a fold goes through. *)
LEMMA InitialInterval ==
  ASSUME NEW n \in Nat, NEW k \in 1 .. n
  PROVE  1 .. k \in SUBSET (1 .. n) /\ 1 .. k # {}
<1>1. k \in 1 .. k /\ k <= n
  OBVIOUS
<1>2. QED
  BY <1>1

(* A finite set of integers has a greatest element. *)
LEMMA GreatestExists ==
  ASSUME NEW n \in Nat, NEW s \in SUBSET (1 .. n), s # {}
  PROVE  Max(s) \in s /\ \A i \in s : Max(s) >= i
<1> DEFINE above == {k \in Nat : \A i \in s : i <= k}
<1>1. PICK k \in above : \A j \in above : ~(<<j, k>> \in OpToRel(<, Nat))
  <2>1. n \in above /\ above \in SUBSET Nat
    OBVIOUS
  <2>2. QED
    BY <2>1, NatLessThanWellFounded, WFMin
<1>2. k \in s
  <2> SUFFICES ASSUME k \notin s PROVE FALSE
    OBVIOUS
  <2>6. PICK i \in s : TRUE
    OBVIOUS
  <2>7. i \in Nat /\ i >= 1 /\ i <= k /\ k \in Nat
    OBVIOUS
  <2>8. ASSUME NEW j \in s PROVE j <= k - 1
    <3>1. j \in Nat /\ j <= k /\ j # k /\ k \in Nat
      OBVIOUS
    <3>2. QED
      BY <3>1
  <2>1. k - 1 \in above /\ k \in Nat
    BY <2>7, <2>8
  <2> DEFINE w == <<k - 1, k>>
  <2>2. w \in Nat \X Nat /\ w[1] = k - 1 /\ w[2] = k
    BY <2>1
  <2>3. w \in {x \in Nat \X Nat : x[1] < x[2]}
    BY <2>1, <2>2
  <2>4. w \in OpToRel(<, Nat)
    BY <2>3 DEF OpToRel
  <2>5. QED
    BY <1>1, <2>1, <2>4
<1>3. \A i \in s : k >= i
  OBVIOUS
<1>4. QED
  BY <1>2, <1>3 DEF Max

(* The values a fold from the left goes through, from the equation of its   *)
(* function on sets.                                                       *)
LEMMA FoldPath ==
  ASSUME NEW n \in Nat, NEW V, NEW base \in V, NEW F, NEW it,
         \A i \in 1 .. n : \A v \in V : F[i][v] \in V, FoldIter(it, n, V, base, F)
  PROVE  \E p \in [0 .. n -> V] : FoldSteps(p, n, base, F) /\ p[n] = it[1 .. n]
<1> DEFINE Good == {k \in Nat : k <= n => it[1 .. k] \in V}
           p == [k \in 0 .. n |-> it[1 .. k]]
<1> USE DEF FoldIter
<1>1. 1 .. 0 = {}
  OBVIOUS
<1>2. 0 \in Good
  BY <1>1
<1>3. ASSUME NEW k \in Good PROVE k + 1 \in Good
  <2> SUFFICES ASSUME k + 1 <= n PROVE it[1 .. (k + 1)] \in V
    OBVIOUS
  <2>1. k + 1 \in 1 .. n /\ (k + 1) - 1 = k /\ it[1 .. k] \in V
    OBVIOUS
  <2>2. it[1 .. (k + 1)] = F[k + 1][it[1 .. k]]
    BY <2>1
  <2>3. QED
    BY <2>1, <2>2
<1>4. Good = Nat
  <2>1. Good \in SUBSET Nat
    OBVIOUS
  <2> HIDE DEF Good
  <2>2. QED
    BY <1>2, <1>3, <2>1, SetInduction
<1>5. p \in [0 .. n -> V]
  BY <1>4
<1>6. \A k \in 1 .. n : p[k] = F[k][p[k - 1]]
  <2> TAKE k \in 1 .. n
  <2>1. k - 1 \in 0 .. n /\ k \in 0 .. n
    OBVIOUS
  <2>2. p[k - 1] \in V /\ p[k - 1] = it[1 .. (k - 1)] /\ p[k] = it[1 .. k]
    BY <1>5, <2>1
  <2>3. QED
    BY <2>2
<1>7. p[0] = base /\ p[n] = it[1 .. n]
  BY <1>1
<1> HIDE DEF p
<1>8. QED
  BY <1>5, <1>6, <1>7 DEF FoldSteps

-----------------------------------------------------------------------------
(* Windows                                                                 *)

(* Two folds that begin with the same value and take the same steps agree. *)
LEMMA FoldPathUnique ==
  ASSUME NEW n \in Nat, NEW base, NEW F, NEW p, NEW q,
         FoldSteps(p, n, base, F), FoldSteps(q, n, base, F)
  PROVE  p[n] = q[n]
<1> DEFINE Good == {k \in Nat : k <= n => p[k] = q[k]}
<1> USE DEF FoldSteps
<1>1. 0 \in Good
  OBVIOUS
<1>2. ASSUME NEW k \in Good PROVE k + 1 \in Good
  <2> SUFFICES ASSUME k + 1 <= n PROVE p[k + 1] = q[k + 1]
    OBVIOUS
  <2>1. k + 1 \in 1 .. n /\ (k + 1) - 1 = k /\ p[k] = q[k]
    OBVIOUS
  <2>2. p[k + 1] = F[k + 1][p[k]] /\ q[k + 1] = F[k + 1][q[k]]
    BY <2>1
  <2>3. QED
    BY <2>1, <2>2
<1>3. Good = Nat
  <2>1. Good \in SUBSET Nat
    OBVIOUS
  <2> HIDE DEF Good
  <2>2. QED
    BY <1>1, <1>2, <2>1, SetInduction
<1>4. QED
  BY <1>3

(* What Append does, as the facts the inductions below use. *)
LEMMA AppendFacts ==
  ASSUME NEW V, NEW r \in Seq(V), NEW x \in V
  PROVE  /\ Append(r, x) \in Seq(V)
         /\ Len(r) \in Nat /\ Len(Append(r, x)) = Len(r) + 1
         /\ Append(r, x)[Len(r) + 1] = x
         /\ \A i \in 1 .. Len(r) : Append(r, x)[i] = r[i]
OBVIOUS

(* Induction over sequences, for a set of them. *)
LEMMA SeqInduction ==
  ASSUME NEW V, NEW S \in SUBSET Seq(V), <<>> \in S,
         \A s \in S : \A x \in V : Append(s, x) \in S
  PROVE  S = Seq(V)
<1> DEFINE Good == {n \in Nat : \A s \in Seq(V) : Len(s) = n => s \in S}
<1>1. 0 \in Good
  <2>1. \A s \in Seq(V) : Len(s) = 0 => s = <<>>
    BY EmptySeq
  <2>2. QED
    BY <2>1
<1>2. ASSUME NEW n \in Good PROVE n + 1 \in Good
  <2> SUFFICES ASSUME NEW s \in Seq(V), Len(s) = n + 1 PROVE s \in S
    OBVIOUS
  <2> DEFINE r == SubSeq(s, 1, n)
  <2>1. r \in Seq(V) /\ Len(r) = n /\ \A i \in 1 .. n : r[i] = s[i]
    OBVIOUS
  <2>2. s[n + 1] \in V
    OBVIOUS
  <2>3. Append(r, s[n + 1]) = s
    <3> HIDE DEF r
    <3> DEFINE x == s[n + 1]
               a == Append(r, x)
    <3>1. n \in Nat /\ x \in V /\ r \in Seq(V)
      BY <2>1, <2>2
    <3> HIDE DEF x, Good
    <3>2. /\ a \in Seq(V) /\ Len(r) \in Nat /\ Len(a) = Len(r) + 1 /\ a[Len(r) + 1] = x
          /\ \A i \in 1 .. Len(r) : a[i] = r[i]
      BY <3>1, AppendFacts
    <3>3. ASSUME NEW i \in 1 .. n PROVE a[i] = s[i]
      BY <2>1, <3>2
    <3> HIDE DEF a
    <3>4. \A i \in 1 .. Len(a) : a[i] = s[i]
      <4> TAKE i \in 1 .. Len(a)
      <4>1. i \in 1 .. n \/ i = n + 1
        BY <2>1, <3>1, <3>2
      <4>2. QED
        BY <2>1, <3>2, <3>3, <4>1 DEF x
    <3>5. Len(a) = Len(s)
      BY <2>1, <3>1, <3>2
    <3>6. QED
      BY <3>2, <3>4, <3>5, SeqEqual DEF a, x
  <2>4. r \in S
    BY <2>1
  <2>5. QED
    BY <2>2, <2>3, <2>4
<1>3. Good = Nat
  <2>1. Good \in SUBSET Nat
    OBVIOUS
  <2> HIDE DEF Good
  <2>2. QED
    BY <1>1, <1>2, <2>1, SetInduction
<1>4. QED
  BY <1>3, LenProperties

(* A window is the fold that keeps what is not older than its start. *)
KeepStep(nowMs, windowMs, V, items) ==
  [i \in 1 .. Len(items) |->
     [v \in Seq(V) |-> IF items[i].ts >= nowMs - windowMs THEN Append(v, items[i]) ELSE v]]

IsWindowPath(p, V, items, nowMs, windowMs) ==
  /\ p \in [0 .. Len(items) -> Seq(V)]
  /\ FoldSteps(p, Len(items), <<>>, KeepStep(nowMs, windowMs, V, items))
  /\ InWindow(items, nowMs, windowMs) = p[Len(items)]

(* The window over a sequence is the last value of a path that keeps or    *)
(* skips one item at a step.                                               *)
LEMMA WindowPath ==
  ASSUME NEW V, NEW items \in Seq(V), NEW nowMs \in Int, NEW windowMs \in Int
  PROVE  \E p : IsWindowPath(p, V, items, nowMs, windowMs)
<1> DEFINE n == Len(items)
           Keep(kept, item) == IF item.ts >= nowMs - windowMs THEN Append(kept, item) ELSE kept
           F == KeepStep(nowMs, windowMs, V, items)
           choice == [s \in SUBSET (1 .. n) |-> Max(s)]
           Eq(it) == it = [s \in SUBSET (1 .. n) |->
                             IF s = {} THEN <<>> ELSE Keep(it[s \ {Max(s)}], items[Max(s)])]
           iter == CHOOSE it : Eq(it)
<1>1. n \in Nat /\ DOMAIN items = 1 .. n /\ \A i \in 1 .. n : items[i] \in V
  BY LenProperties
<1>2. \A i \in 1 .. n : \A v \in Seq(V) : F[i][v] = Keep(v, items[i])
  BY DEF KeepStep
<1>3. \A i \in 1 .. n : \A v \in Seq(V) : F[i][v] \in Seq(V)
  <2> TAKE i \in 1 .. n
  <2> TAKE v \in Seq(V)
  <2>1. Append(v, items[i]) \in Seq(V)
    BY <1>1, AppendFacts
  <2> HIDE DEF F, n
  <2>2. QED
    BY <1>2, <2>1
<1>4. \A s \in SUBSET (1 .. n) : s # {} => choice[s] \in s
  BY <1>1, GreatestExists
<1>5. <<>> \in Seq(V)
  OBVIOUS
<1>6. Eq(iter)
  <2> HIDE DEF n, F, choice
  <2>1. PICK it \in [SUBSET (1 .. n) -> Seq(V)] : FoldEquation(it, n, <<>>, F, choice)
    BY <1>1, <1>3, <1>4, <1>5, FoldExists
  <2>2. \A s \in SUBSET (1 .. n) : s # {} => /\ choice[s] = Max(s) /\ Max(s) \in 1 .. n
                                            /\ it[s \ {Max(s)}] \in Seq(V)
    BY <1>4, <2>1 DEF choice
  <2>3. \A s \in SUBSET (1 .. n) :
          it[s] = IF s = {} THEN <<>> ELSE Keep(it[s \ {Max(s)}], items[Max(s)])
    <3> HIDE DEF Keep
    <3>1. QED
      BY <1>2, <2>1, <2>2 DEF FoldEquation
  <2>4. Eq(it)
    BY <2>3
  <2>5. QED
    BY <2>4
<1>7. InWindow(items, nowMs, windowMs) = iter[1 .. n]
  BY <1>1 DEF InWindow, FoldLeft, MapThenFoldSet
<1>8. iter[{}] = <<>>
  BY <1>6
<1>9. ASSUME NEW k \in 1 .. n, iter[1 .. (k - 1)] \in Seq(V)
      PROVE  iter[1 .. k] = F[k][iter[1 .. (k - 1)]]
  <2>1. Max(1 .. k) = k /\ (1 .. k) \ {k} = 1 .. (k - 1)
    BY GreatestOfInterval
  <2>2. 1 .. k \in SUBSET (1 .. n) /\ 1 .. k # {}
    BY <1>1, InitialInterval
  <2>3. iter[1 .. k] = Keep(iter[(1 .. k) \ {Max(1 .. k)}], items[Max(1 .. k)])
    <3>1. iter = [x \in SUBSET (1 .. n) |->
                    IF x = {} THEN <<>> ELSE Keep(iter[x \ {Max(x)}], items[Max(x)])]
      BY <1>6
    <3> HIDE DEF iter, n, Keep
    <3>2. QED
      BY <2>2, <3>1
  <2> HIDE DEF iter, n, Keep, F
  <2>4. QED
    BY <1>2, <1>9, <2>1, <2>3
<1> HIDE DEF iter, n, F, choice
<1>10. \E p \in [0 .. n -> Seq(V)] : FoldSteps(p, n, <<>>, F) /\ p[n] = iter[1 .. n]
  <2>1. FoldIter(iter, n, Seq(V), <<>>, F)
    BY <1>8, <1>9 DEF FoldIter
  <2>2. QED
    <3> DEFINE base == <<>>
    <3>1. base \in Seq(V) /\ FoldIter(iter, n, Seq(V), base, F)
      BY <1>5, <2>1
    <3> HIDE DEF base
    <3>2. \E p \in [0 .. n -> Seq(V)] : FoldSteps(p, n, base, F) /\ p[n] = iter[1 .. n]
      BY <1>1, <1>3, <3>1, FoldPath
    <3>3. QED
      BY <3>2 DEF base
<1>11. QED
  BY <1>7, <1>10 DEF n, F, IsWindowPath

(* Nothing is in the window over nothing. *)
LEMMA WindowEmpty ==
  ASSUME NEW nowMs \in Int, NEW windowMs \in Int
  PROVE  InWindow(<<>>, nowMs, windowMs) = <<>>
<1>1. <<>> \in Seq({}) /\ Len(<<>>) = 0
  OBVIOUS
<1>2. PICK p : IsWindowPath(p, {}, <<>>, nowMs, windowMs)
  BY <1>1, WindowPath
<1>3. QED
  BY <1>1, <1>2 DEF FoldSteps, IsWindowPath

(* A window grows by the item that comes, or by nothing. *)
LEMMA WindowAppend ==
  ASSUME NEW V, NEW items \in Seq(V), NEW item \in V, NEW nowMs \in Int, NEW windowMs \in Int
  PROVE  /\ InWindow(items, nowMs, windowMs) \in Seq(V)
         /\ InWindow(Append(items, item), nowMs, windowMs) =
              IF item.ts >= nowMs - windowMs THEN Append(InWindow(items, nowMs, windowMs), item)
              ELSE InWindow(items, nowMs, windowMs)
<1> DEFINE n == Len(items)
           more == Append(items, item)
           F == KeepStep(nowMs, windowMs, V, items)
           G == KeepStep(nowMs, windowMs, V, more)
<1>1. n \in Nat /\ more \in Seq(V) /\ Len(more) = n + 1 /\ more[n + 1] = item
      /\ \A i \in 1 .. n : more[i] = items[i]
  OBVIOUS
<1>2. PICK p : p \in [0 .. n -> Seq(V)] /\ FoldSteps(p, n, <<>>, F) /\ InWindow(items, nowMs, windowMs) = p[n]
  <2>1. PICK p : IsWindowPath(p, V, items, nowMs, windowMs)
    BY WindowPath
  <2>2. QED
    BY <2>1 DEF IsWindowPath
<1>3. PICK q : q \in [0 .. n + 1 -> Seq(V)] /\ FoldSteps(q, n + 1, <<>>, G) /\ InWindow(more, nowMs, windowMs) = q[n + 1]
  <2>1. PICK q : IsWindowPath(q, V, more, nowMs, windowMs)
    <3> HIDE DEF more, n
    <3>1. QED
      BY <1>1, WindowPath
  <2> HIDE DEF more, n
  <2>2. QED
    BY <1>1, <2>1 DEF IsWindowPath
<1>4. FoldSteps(q, n, <<>>, F)
  <2>1. q[0] = <<>>
    BY <1>3 DEF FoldSteps
  <2>2. ASSUME NEW k \in 1 .. n PROVE q[k] = F[k][q[k - 1]]
    <3>1. k \in 1 .. n + 1 /\ q[k - 1] \in Seq(V) /\ more[k] = items[k]
      <4> HIDE DEF n, more
      <4>1. k - 1 \in 0 .. n + 1 /\ k \in 1 .. n + 1
        BY <1>1
      <4>2. QED
        BY <1>1, <1>3, <4>1
    <3>2. q[k] = G[k][q[k - 1]]
      BY <1>3, <3>1 DEF FoldSteps
    <3> HIDE DEF n, more
    <3>3. QED
      BY <1>1, <3>1, <3>2 DEF KeepStep, n
  <2>3. QED
    BY <2>1, <2>2 DEF FoldSteps
<1>5. p[n] = q[n]
  <2> HIDE DEF F, n
  <2>1. QED
    BY <1>1, <1>2, <1>4, FoldPathUnique
<1>6. q[n + 1] = IF item.ts >= nowMs - windowMs THEN Append(q[n], item) ELSE q[n]
  <2>1. n + 1 \in 1 .. n + 1 /\ (n + 1) - 1 = n /\ q[n] \in Seq(V)
    <3> HIDE DEF n, more
    <3>1. QED
      BY <1>1, <1>3
  <2>2. q[n + 1] = G[n + 1][q[n]]
    BY <1>3, <2>1 DEF FoldSteps
  <2> HIDE DEF n, more
  <2>3. QED
    BY <1>1, <2>1, <2>2 DEF KeepStep
<1>7. QED
  BY <1>1, <1>2, <1>3, <1>5, <1>6

(* Its items are the items of the sequence that are not too old. *)
LEMMA WindowItems ==
  ASSUME NEW V, NEW items \in Seq(V), NEW nowMs \in Int, NEW windowMs \in Int
  PROVE  LET kept == InWindow(items, nowMs, windowMs)
         IN  /\ kept \in Seq(V)
             /\ \A i \in DOMAIN kept : kept[i].ts >= nowMs - windowMs
                                       /\ \E j \in DOMAIN items : kept[i] = items[j]
             /\ \A j \in DOMAIN items : items[j].ts >= nowMs - windowMs =>
                  \E i \in DOMAIN kept : kept[i] = items[j]
<1> DEFINE Win(s) == InWindow(s, nowMs, windowMs)
           Sound(s) == \A i \in DOMAIN Win(s) : Win(s)[i].ts >= nowMs - windowMs
                                                /\ \E j \in DOMAIN s : Win(s)[i] = s[j]
           Complete(s) == \A j \in DOMAIN s : s[j].ts >= nowMs - windowMs =>
                            \E i \in DOMAIN Win(s) : Win(s)[i] = s[j]
           Good == {s \in Seq(V) : Win(s) \in Seq(V) /\ Sound(s) /\ Complete(s)}
<1>1. <<>> \in Good
  <2>1. Win(<<>>) = <<>> /\ <<>> \in Seq(V) /\ DOMAIN <<>> = {}
    BY WindowEmpty
  <2>2. QED
    BY <2>1
<1>2. ASSUME NEW s \in Good, NEW x \in V PROVE Append(s, x) \in Good
  <2> DEFINE more == Append(s, x)
             n == Len(s)
             w == Win(s)
  <2>1. s \in Seq(V) /\ n \in Nat /\ more \in Seq(V) /\ DOMAIN more = 1 .. n + 1 /\ more[n + 1] = x
        /\ DOMAIN s = 1 .. n /\ \A i \in 1 .. n : more[i] = s[i]
    OBVIOUS
  <2>2. Sound(s) /\ Complete(s) /\ w \in Seq(V)
    BY <2>1
  <2>3. Win(more) = IF x.ts >= nowMs - windowMs THEN Append(w, x) ELSE w
    BY <2>1, WindowAppend
  <2>4. CASE x.ts >= nowMs - windowMs
    <3> DEFINE m == Len(w)
    <3>1. Win(more) = Append(w, x) /\ m \in Nat /\ DOMAIN w = 1 .. m /\ Win(more) \in Seq(V)
          /\ DOMAIN Win(more) = 1 .. m + 1 /\ Win(more)[m + 1] = x
          /\ \A i \in 1 .. m : Win(more)[i] = w[i]
      BY <2>2, <2>3, <2>4
    <3> HIDE DEF m, n, w, more
    <3>2. Sound(more)
      <4> SUFFICES ASSUME NEW i \in 1 .. m + 1
                   PROVE  Win(more)[i].ts >= nowMs - windowMs /\ \E j \in 1 .. n + 1 : Win(more)[i] = more[j]
        BY <2>1, <3>1
      <4>1. CASE i = m + 1
        BY <2>1, <2>4, <3>1, <4>1
      <4>2. CASE i \in 1 .. m
        <5>1. w[i].ts >= nowMs - windowMs /\ \E j \in 1 .. n : w[i] = s[j]
          BY <2>1, <2>2, <3>1, <4>2 DEF w
        <5>2. QED
          BY <2>1, <3>1, <4>2, <5>1
      <4>3. QED
        BY <3>1, <4>1, <4>2
    <3>3. Complete(more)
      <4> SUFFICES ASSUME NEW j \in 1 .. n + 1, more[j].ts >= nowMs - windowMs
                   PROVE  \E i \in 1 .. m + 1 : Win(more)[i] = more[j]
        BY <2>1, <3>1
      <4>1. CASE j = n + 1
        BY <2>1, <3>1, <4>1
      <4>2. CASE j \in 1 .. n
        <5>1. \E i \in 1 .. m : w[i] = s[j]
          BY <2>1, <2>2, <3>1, <4>2 DEF w
        <5>2. QED
          BY <2>1, <3>1, <4>2, <5>1
      <4>3. j \in 1 .. n \/ j = n + 1
        BY <2>1
      <4>4. QED
        BY <4>1, <4>2, <4>3
    <3>4. more \in Good
      BY <2>1, <3>1, <3>2, <3>3
    <3>5. QED
      BY <3>4 DEF more
  <2>5. CASE ~(x.ts >= nowMs - windowMs)
    <3>1. Win(more) = w
      BY <2>3, <2>5
    <3> HIDE DEF n, w, more
    <3>2. Sound(more)
      <4> SUFFICES ASSUME NEW i \in DOMAIN w
                   PROVE  w[i].ts >= nowMs - windowMs /\ \E j \in 1 .. n + 1 : w[i] = more[j]
        BY <2>1, <3>1
      <4>1. w[i].ts >= nowMs - windowMs /\ \E j \in 1 .. n : w[i] = s[j]
        BY <2>1, <2>2 DEF w
      <4>2. QED
        BY <2>1, <4>1
    <3>3. Complete(more)
      <4> SUFFICES ASSUME NEW j \in 1 .. n + 1, more[j].ts >= nowMs - windowMs
                   PROVE  \E i \in DOMAIN w : w[i] = more[j]
        BY <2>1, <3>1
      <4>1. j # n + 1
        BY <2>1, <2>5
      <4>2. j \in 1 .. n
        BY <2>1, <4>1
      <4>3. QED
        BY <2>1, <2>2, <4>2 DEF w
    <3>4. more \in Good
      BY <2>1, <2>2, <3>1, <3>2, <3>3
    <3>5. QED
      BY <3>4 DEF more
  <2>6. QED
    BY <2>4, <2>5
<1>3. Good = Seq(V)
  <2>1. Good \in SUBSET Seq(V)
    OBVIOUS
  <2> HIDE DEF Good
  <2>2. QED
    BY <1>1, <1>2, <2>1, SeqInduction
<1>4. QED
  BY <1>3

(* Of two windows the one that starts later is left. *)
LEMMA WindowOfWindow ==
  ASSUME NEW V, NEW items \in Seq(V), \A x \in V : x.ts \in Int,
         NEW t1 \in Int, NEW w1 \in Int, NEW t2 \in Int, NEW w2 \in Int, t1 - w1 <= t2 - w2
  PROVE  InWindow(InWindow(items, t1, w1), t2, w2) = InWindow(items, t2, w2)
<1> DEFINE Good == {s \in Seq(V) : InWindow(InWindow(s, t1, w1), t2, w2) = InWindow(s, t2, w2)}
<1>1. <<>> \in Good
  BY WindowEmpty
<1>2. ASSUME NEW s \in Good, NEW x \in V PROVE Append(s, x) \in Good
  <2> DEFINE a == InWindow(s, t1, w1)
  <2>1. Append(s, x) \in Seq(V) /\ a \in Seq(V) /\ x.ts \in Int
    BY WindowAppend
  <2>2. InWindow(Append(s, x), t1, w1) = IF x.ts >= t1 - w1 THEN Append(a, x) ELSE a
    BY WindowAppend
  <2>3. InWindow(Append(s, x), t2, w2) =
          IF x.ts >= t2 - w2 THEN Append(InWindow(s, t2, w2), x) ELSE InWindow(s, t2, w2)
    BY WindowAppend
  <2>4. InWindow(Append(a, x), t2, w2) =
          IF x.ts >= t2 - w2 THEN Append(InWindow(a, t2, w2), x) ELSE InWindow(a, t2, w2)
    <3> HIDE DEF a, Good
    <3>1. QED
      BY <2>1, WindowAppend
  <2>5. InWindow(a, t2, w2) = InWindow(s, t2, w2)
    OBVIOUS
  <2>6. InWindow(InWindow(Append(s, x), t1, w1), t2, w2) = InWindow(Append(s, x), t2, w2)
    <3> HIDE DEF a, Good
    <3>1. CASE x.ts >= t1 - w1
      BY <2>2, <2>3, <2>4, <2>5, <3>1
    <3>2. CASE ~(x.ts >= t1 - w1)
      <4>1. ~(x.ts >= t2 - w2)
        BY <2>1, <3>2
      <4>2. QED
        BY <2>2, <2>3, <2>5, <3>2, <4>1
    <3>3. QED
      BY <3>1, <3>2
  <2>7. QED
    BY <2>1, <2>6
<1>3. Good = Seq(V)
  <2>1. Good \in SUBSET Seq(V)
    OBVIOUS
  <2> HIDE DEF Good
  <2>2. QED
    BY <1>1, <1>2, <2>1, SeqInduction
<1>4. QED
  BY <1>3

-----------------------------------------------------------------------------
(* Fills, trades and simulations                                           *)

Fill ==
  [ts : Int, side : Sides, orderPx : Int, size : Nat, midT0 : Int, placedAt : Int, tradePx : Int]

MarketTrade ==
  [ts : Int, px : Int, side : Sides \cup {Undefined}, type : {"normal", "liq", "delev"}]

Sim ==
  [orders : [Sides -> SimOrder \cup {Undefined}], position : Int, fills : Seq(Fill),
   cancelCount : Nat, orderIdCounter : Nat, pauseTransitions : Nat, lastMode : Mode]

(* A fold over a longer sequence takes the steps of the shorter one first. *)
LEMMA FoldAppend ==
  ASSUME NEW n \in Nat, NEW base, NEW F, NEW G, NEW p, NEW q,
         FoldSteps(p, n, base, F), FoldSteps(q, n + 1, base, G), \A i \in 1 .. n : G[i] = F[i]
  PROVE  q[n] = p[n] /\ q[n + 1] = G[n + 1][p[n]]
<1>1. FoldSteps(q, n, base, F)
  <2>1. ASSUME NEW k \in 1 .. n PROVE q[k] = F[k][q[k - 1]]
    <3>1. k \in 1 .. n + 1 /\ G[k] = F[k]
      OBVIOUS
    <3>2. QED
      BY <3>1 DEF FoldSteps
  <2>2. QED
    BY <2>1 DEF FoldSteps
<1>2. q[n] = p[n]
  BY <1>1, FoldPathUnique
<1>3. n + 1 \in 1 .. n + 1 /\ (n + 1) - 1 = n
  OBVIOUS
<1>4. q[n + 1] = G[n + 1][q[n]]
  BY <1>3 DEF FoldSteps
<1>5. QED
  BY <1>2, <1>4

-----------------------------------------------------------------------------
(* The sum of the fills                                                    *)

SumStep(fills) ==
  [i \in 1 .. Len(fills) |-> [v \in Int |-> v + Signed(fills[i].side, fills[i].size)]]

IsSumPath(p, fills) ==
  /\ p \in [0 .. Len(fills) -> Int]
  /\ FoldSteps(p, Len(fills), 0, SumStep(fills))
  /\ NetFilled(fills) = p[Len(fills)]

(* A fill counts as an integer. *)
LEMMA SignedType ==
  ASSUME NEW f \in Fill PROVE Signed(f.side, f.size) \in Int
BY DEF Fill, Signed, Sides

(* The sum of the fills is the last value of a path that adds one fill at  *)
(* a step.                                                                 *)
LEMMA SumPath ==
  ASSUME NEW fills \in Seq(Fill)
  PROVE  \E p : IsSumPath(p, fills)
<1> DEFINE n == Len(fills)
           Add(sum, f) == sum + Signed(f.side, f.size)
           F == SumStep(fills)
           choice == [s \in SUBSET (1 .. n) |-> Max(s)]
           Eq(it) == it = [s \in SUBSET (1 .. n) |->
                             IF s = {} THEN 0 ELSE Add(it[s \ {Max(s)}], fills[Max(s)])]
           iter == CHOOSE it : Eq(it)
<1>1. n \in Nat /\ DOMAIN fills = 1 .. n /\ \A i \in 1 .. n : fills[i] \in Fill
  BY LenProperties
<1>2. \A i \in 1 .. n : \A v \in Int : F[i][v] = Add(v, fills[i])
  BY DEF SumStep
<1>3. \A i \in 1 .. n : \A v \in Int : F[i][v] \in Int
  <2> TAKE i \in 1 .. n
  <2> TAKE v \in Int
  <2>1. Signed(fills[i].side, fills[i].size) \in Int
    <3> HIDE DEF n
    <3>1. fills[i] \in Fill
      BY <1>1
    <3>2. QED
      BY <3>1, SignedType
  <2>2. F[i][v] = v + Signed(fills[i].side, fills[i].size)
    BY <1>2
  <2> HIDE DEF F, n, iter, choice
  <2>3. QED
    BY <2>1, <2>2
<1>4. \A s \in SUBSET (1 .. n) : s # {} => choice[s] \in s
  BY <1>1, GreatestExists
<1>5. 0 \in Int
  OBVIOUS
<1>6. Eq(iter)
  <2> HIDE DEF n, F, choice
  <2>1. PICK it \in [SUBSET (1 .. n) -> Int] : FoldEquation(it, n, 0, F, choice)
    BY <1>1, <1>3, <1>4, <1>5, FoldExists
  <2>2. \A s \in SUBSET (1 .. n) : s # {} => /\ choice[s] = Max(s) /\ Max(s) \in 1 .. n
                                            /\ it[s \ {Max(s)}] \in Int
    BY <1>4, <2>1 DEF choice
  <2>3. \A s \in SUBSET (1 .. n) :
          it[s] = IF s = {} THEN 0 ELSE Add(it[s \ {Max(s)}], fills[Max(s)])
    <3> HIDE DEF Add
    <3>1. QED
      BY <1>2, <2>1, <2>2 DEF FoldEquation
  <2>4. Eq(it)
    BY <2>3
  <2>5. QED
    BY <2>4
<1>7. NetFilled(fills) = iter[1 .. n]
  BY <1>1 DEF NetFilled, FoldLeft, MapThenFoldSet
<1>8. iter[{}] = 0
  BY <1>6
<1>9. ASSUME NEW k \in 1 .. n, iter[1 .. (k - 1)] \in Int
      PROVE  iter[1 .. k] = F[k][iter[1 .. (k - 1)]]
  <2>1. Max(1 .. k) = k /\ (1 .. k) \ {k} = 1 .. (k - 1)
    BY GreatestOfInterval
  <2>2. 1 .. k \in SUBSET (1 .. n) /\ 1 .. k # {}
    BY <1>1, InitialInterval
  <2>3. iter[1 .. k] = Add(iter[(1 .. k) \ {Max(1 .. k)}], fills[Max(1 .. k)])
    <3>1. iter = [x \in SUBSET (1 .. n) |->
                    IF x = {} THEN 0 ELSE Add(iter[x \ {Max(x)}], fills[Max(x)])]
      BY <1>6
    <3> HIDE DEF iter, n, Add
    <3>2. QED
      BY <2>2, <3>1
  <2> HIDE DEF iter, n, Add, F
  <2>4. QED
    BY <1>2, <1>9, <2>1, <2>3
<1> HIDE DEF iter, n, F, choice
<1>10. PICK p \in [0 .. n -> Int] : FoldSteps(p, n, 0, F) /\ p[n] = iter[1 .. n]
  <2>1. FoldIter(iter, n, Int, 0, F)
    BY <1>8, <1>9 DEF FoldIter
  <2>2. QED
    <3> DEFINE V == Int
               base == 0
    <3>1. base \in V /\ FoldIter(iter, n, V, base, F) /\ \A i \in 1 .. n : \A v \in V : F[i][v] \in V
      BY <1>3, <1>5, <2>1
    <3> HIDE DEF base, V
    <3>2. \E p \in [0 .. n -> V] : FoldSteps(p, n, base, F) /\ p[n] = iter[1 .. n]
      BY <1>1, <3>1, FoldPath
    <3>3. QED
      BY <3>2 DEF base, V
<1>11. QED
  BY <1>7, <1>10 DEF n, F, IsSumPath

(* Without fills the sum is 0. *)
LEMMA NetFilledEmpty == NetFilled(<<>>) = 0
<1>1. <<>> \in Seq(Fill) /\ Len(<<>>) = 0
  OBVIOUS
<1>2. PICK p : IsSumPath(p, <<>>)
  BY <1>1, SumPath
<1>3. QED
  BY <1>1, <1>2 DEF FoldSteps, IsSumPath

(* One more fill adds its size, or takes it away. *)
LEMMA NetFilledAppend ==
  ASSUME NEW fills \in Seq(Fill), NEW f \in Fill
  PROVE  /\ NetFilled(fills) \in Int
         /\ NetFilled(Append(fills, f)) = NetFilled(fills) + Signed(f.side, f.size)
<1> DEFINE n == Len(fills)
           more == Append(fills, f)
           F == SumStep(fills)
           G == SumStep(more)
<1>1. n \in Nat /\ more \in Seq(Fill) /\ Len(more) = n + 1 /\ more[n + 1] = f
      /\ \A i \in 1 .. n : more[i] = fills[i]
  BY AppendFacts
<1>2. PICK p : p \in [0 .. n -> Int] /\ FoldSteps(p, n, 0, F) /\ NetFilled(fills) = p[n]
  <2>1. PICK p : IsSumPath(p, fills)
    BY SumPath
  <2>2. QED
    BY <2>1 DEF IsSumPath
<1>3. PICK q : FoldSteps(q, n + 1, 0, G) /\ NetFilled(more) = q[n + 1]
  <2> HIDE DEF more, n
  <2>1. PICK q : IsSumPath(q, more)
    BY <1>1, SumPath
  <2>2. QED
    BY <1>1, <2>1 DEF IsSumPath
<1>4. \A i \in 1 .. n : G[i] = F[i]
  <2> TAKE i \in 1 .. n
  <2> HIDE DEF more, n
  <2>1. i \in 1 .. Len(more) /\ i \in 1 .. Len(fills) /\ more[i] = fills[i]
    BY <1>1 DEF n
  <2>2. QED
    BY <2>1 DEF SumStep
<1> HIDE DEF F, G, n, more
<1>5. q[n + 1] = G[n + 1][p[n]]
  BY <1>1, <1>2, <1>3, <1>4, FoldAppend
<1>6. G[n + 1][p[n]] = p[n] + Signed(f.side, f.size) /\ p[n] \in Int
  <2>1. n + 1 \in 1 .. Len(more) /\ p[n] \in Int
    BY <1>1, <1>2
  <2>2. QED
    BY <1>1, <2>1 DEF G, SumStep
<1>7. QED
  BY <1>2, <1>3, <1>5, <1>6 DEF more

-----------------------------------------------------------------------------
(* The touch fill                                                          *)

(* The guard of checkTouchFill, for one side. *)
IsTouched(s, side, trade) ==
  s.orders[side] # Undefined /\ Touches(side, trade, s.orders[side])

(* The fill executeFill records. *)
FillOf(order, side, trade, midPx) ==
  [ts |-> trade.ts, side |-> side, orderPx |-> order.price, size |-> order.size,
   midT0 |-> midPx, placedAt |-> order.createdAtMs, tradePx |-> trade.px]

(* The order on a side of s is a fill in r. *)
BecomesFill(s, r, side, trade, midPx) ==
  /\ r.orders = [s.orders EXCEPT ![side] = Undefined]
  /\ r.position = s.position + Signed(side, s.orders[side].size)
  /\ r.fills = Append(s.fills, FillOf(s.orders[side], side, trade, midPx))
  /\ r.cancelCount = s.cancelCount /\ r.orderIdCounter = s.orderIdCounter
  /\ r.pauseTransitions = s.pauseTransitions /\ r.lastMode = s.lastMode

(* An order that is touched becomes a fill, and nothing else changes. *)
LEMMA TouchSideFacts ==
  ASSUME NEW s \in Sim, NEW side \in Sides, NEW trade \in MarketTrade, NEW midPx \in Int
  PROVE  /\ TouchSide(s, side, trade, midPx) \in Sim
         /\ IF IsTouched(s, side, trade)
            THEN /\ BecomesFill(s, TouchSide(s, side, trade, midPx), side, trade, midPx)
                 /\ s.orders[side] \in SimOrder
                 /\ FillOf(s.orders[side], side, trade, midPx) \in Fill
            ELSE TouchSide(s, side, trade, midPx) = s
<1> DEFINE order == s.orders[side]
           r == TouchSide(s, side, trade, midPx)
<1>1. CASE ~IsTouched(s, side, trade)
  BY <1>1 DEF IsTouched, TouchSide
<1>2. CASE IsTouched(s, side, trade)
  <2>1. order \in SimOrder
    BY <1>2 DEF IsTouched, Sim
  <2>2. FillOf(order, side, trade, midPx) \in Fill
    BY <2>1 DEF FillOf, Fill, SimOrder, MarketTrade
  <2>3. r = [orders |-> [s.orders EXCEPT ![side] = Undefined],
             position |-> s.position + Signed(side, order.size),
             fills |-> Append(s.fills, FillOf(order, side, trade, midPx)),
             cancelCount |-> s.cancelCount, orderIdCounter |-> s.orderIdCounter,
             pauseTransitions |-> s.pauseTransitions, lastMode |-> s.lastMode]
    BY <1>2 DEF IsTouched, TouchSide, FillOf, Sim
  <2> HIDE DEF r
  <2>4. BecomesFill(s, r, side, trade, midPx)
    BY <2>3 DEF BecomesFill
  <2>5. r \in Sim
    <3>1. Signed(side, order.size) \in Int
      BY <2>1 DEF Signed, SimOrder
    <3>2. [s.orders EXCEPT ![side] = Undefined] \in [Sides -> SimOrder \cup {Undefined}]
      BY DEF Sim
    <3>3. s.fills \in Seq(Fill) /\ s.position \in Int
      BY DEF Sim
    <3>4. Append(s.fills, FillOf(order, side, trade, midPx)) \in Seq(Fill)
      BY <2>2, <3>3, AppendFacts
    <3>5. s.position + Signed(side, order.size) \in Int
      BY <3>1, <3>3
    <3> DEFINE orders == [s.orders EXCEPT ![side] = Undefined]
               position == s.position + Signed(side, order.size)
               fills == Append(s.fills, FillOf(order, side, trade, midPx))
    <3> HIDE DEF orders, position, fills
    <3>6. orders \in [Sides -> SimOrder \cup {Undefined}] /\ position \in Int /\ fills \in Seq(Fill)
      BY <3>2, <3>4, <3>5 DEF orders, position, fills
    <3>7. r = [orders |-> orders, position |-> position, fills |-> fills,
               cancelCount |-> s.cancelCount, orderIdCounter |-> s.orderIdCounter,
               pauseTransitions |-> s.pauseTransitions, lastMode |-> s.lastMode]
      BY <2>3 DEF orders, position, fills
    <3> HIDE DEF order
    <3>8. QED
      BY <3>6, <3>7 DEF Sim
  <2>6. QED
    BY <1>2, <2>1, <2>2, <2>4, <2>5 DEF r
<1>3. QED
  BY <1>1, <1>2

(* What one side of one trade leaves alone, in words that chain. *)
Thinner(s, r) ==
  /\ \A d \in Sides : r.orders[d] = s.orders[d] \/ r.orders[d] = Undefined
  /\ r.cancelCount = s.cancelCount /\ r.orderIdCounter = s.orderIdCounter
  /\ r.lastMode = s.lastMode

(* One side and one trade: what is left was not touched, and the other     *)
(* side is as it was.                                                      *)
LEMMA TouchSideKeeps ==
  ASSUME NEW s \in Sim, NEW side \in Sides, NEW trade \in MarketTrade, NEW midPx \in Int
  PROVE  /\ TouchSide(s, side, trade, midPx) \in Sim
         /\ ~IsTouched(TouchSide(s, side, trade, midPx), side, trade)
         /\ Thinner(s, TouchSide(s, side, trade, midPx))
         /\ \A d \in Sides \ {side} : TouchSide(s, side, trade, midPx).orders[d] = s.orders[d]
<1> DEFINE r == TouchSide(s, side, trade, midPx)
<1>1. r \in Sim
  BY TouchSideFacts
<1>2. CASE ~IsTouched(s, side, trade)
  <2>1. r = s
    BY <1>2, TouchSideFacts
  <2> HIDE DEF r
  <2>2. Thinner(s, r)
    BY <2>1 DEF Thinner
  <2>3. QED
    BY <1>1, <1>2, <2>1, <2>2 DEF r
<1>3. CASE IsTouched(s, side, trade)
  <2>1. BecomesFill(s, r, side, trade, midPx)
    BY <1>3, TouchSideFacts
  <2> HIDE DEF r
  <2>2. DOMAIN s.orders = Sides /\ r.orders = [s.orders EXCEPT ![side] = Undefined]
    BY <2>1 DEF Sim, BecomesFill
  <2>3. r.orders[side] = Undefined /\ \A d \in Sides \ {side} : r.orders[d] = s.orders[d]
    BY <2>2
  <2>4. Thinner(s, r)
    BY <2>1, <2>3 DEF Thinner, BecomesFill
  <2>5. ~IsTouched(r, side, trade)
    BY <2>3 DEF IsTouched
  <2>6. QED
    BY <1>1, <2>3, <2>4, <2>5 DEF r
<1>4. QED
  BY <1>2, <1>3

OneTrade(s, trade, midPx) ==
  TouchSide(TouchSide(s, "buy", trade, midPx), "sell", trade, midPx)

(* One trade: neither side is touched by it any more. *)
LEMMA OneTradeKeeps ==
  ASSUME NEW s \in Sim, NEW trade \in MarketTrade, NEW midPx \in Int
  PROVE  /\ OneTrade(s, trade, midPx) \in Sim
         /\ Thinner(s, OneTrade(s, trade, midPx))
         /\ \A d \in Sides : ~IsTouched(OneTrade(s, trade, midPx), d, trade)
<1> DEFINE b == TouchSide(s, "buy", trade, midPx)
           r == TouchSide(b, "sell", trade, midPx)
<1>0. Sides = {"buy", "sell"} /\ "buy" \in Sides /\ "sell" \in Sides
  BY DEF Sides
<1>1. b \in Sim /\ ~IsTouched(b, "buy", trade) /\ Thinner(s, b)
  BY <1>0, TouchSideKeeps
<1> HIDE DEF b
<1>2. /\ r \in Sim /\ ~IsTouched(r, "sell", trade) /\ Thinner(b, r)
      /\ \A d \in Sides \ {"sell"} : r.orders[d] = b.orders[d]
  BY <1>0, <1>1, TouchSideKeeps
<1>3. r = OneTrade(s, trade, midPx)
  BY DEF OneTrade, b
<1> HIDE DEF r
<1>4. ~IsTouched(r, "buy", trade)
  BY <1>0, <1>1, <1>2 DEF IsTouched
<1>5. \A d \in Sides : ~IsTouched(r, d, trade)
  BY <1>0, <1>2, <1>4
<1>6. Thinner(s, r)
  BY <1>1, <1>2 DEF Thinner
<1>7. QED
  BY <1>2, <1>3, <1>5, <1>6

TouchStep(trades, midPx) ==
  [i \in 1 .. Len(trades) |-> [v \in Sim |-> OneTrade(v, trades[i], midPx)]]

IsTouchPath(p, s, trades, midPx) ==
  /\ p \in [0 .. Len(trades) -> Sim]
  /\ FoldSteps(p, Len(trades), s, TouchStep(trades, midPx))
  /\ CheckTouchFill(s, trades, midPx) = p[Len(trades)]

(* checkTouchFill is the last value of a path that takes one trade at a    *)
(* step.                                                                   *)
LEMMA TouchPath ==
  ASSUME NEW s \in Sim, NEW trades \in Seq(MarketTrade), NEW midPx \in Int
  PROVE  \E p : IsTouchPath(p, s, trades, midPx)
<1> DEFINE n == Len(trades)
           One(acc, trade) == TouchSide(TouchSide(acc, "buy", trade, midPx), "sell", trade, midPx)
           F == TouchStep(trades, midPx)
           choice == [x \in SUBSET (1 .. n) |-> Max(x)]
           Eq(it) == it = [x \in SUBSET (1 .. n) |->
                             IF x = {} THEN s ELSE One(it[x \ {Max(x)}], trades[Max(x)])]
           iter == CHOOSE it : Eq(it)
<1>1. n \in Nat /\ DOMAIN trades = 1 .. n /\ \A i \in 1 .. n : trades[i] \in MarketTrade
  BY LenProperties
<1>2. \A i \in 1 .. n : \A v \in Sim : F[i][v] = One(v, trades[i])
  BY DEF TouchStep, OneTrade
<1>3. \A i \in 1 .. n : \A v \in Sim : F[i][v] \in Sim
  <2> TAKE i \in 1 .. n
  <2> TAKE v \in Sim
  <2>1. F[i][v] = OneTrade(v, trades[i], midPx)
    BY DEF TouchStep
  <2>2. trades[i] \in MarketTrade
    BY <1>1
  <2> HIDE DEF F, n, iter, choice
  <2>3. QED
    BY <2>1, <2>2, OneTradeKeeps
<1>4. \A x \in SUBSET (1 .. n) : x # {} => choice[x] \in x
  BY <1>1, GreatestExists
<1>5. Eq(iter)
  <2> HIDE DEF n, F, choice
  <2>1. PICK it \in [SUBSET (1 .. n) -> Sim] : FoldEquation(it, n, s, F, choice)
    BY <1>1, <1>3, <1>4, FoldExists
  <2>2. \A x \in SUBSET (1 .. n) : x # {} => /\ choice[x] = Max(x) /\ Max(x) \in 1 .. n
                                            /\ it[x \ {Max(x)}] \in Sim
    BY <1>4, <2>1 DEF choice
  <2>3. \A x \in SUBSET (1 .. n) :
          it[x] = IF x = {} THEN s ELSE One(it[x \ {Max(x)}], trades[Max(x)])
    <3> HIDE DEF One
    <3>1. QED
      BY <1>2, <2>1, <2>2 DEF FoldEquation
  <2>4. Eq(it)
    BY <2>3
  <2>5. QED
    BY <2>4
<1>6. CheckTouchFill(s, trades, midPx) = iter[1 .. n]
  BY <1>1 DEF CheckTouchFill, FoldLeft, MapThenFoldSet
<1>7. iter[{}] = s
  BY <1>5
<1>8. ASSUME NEW k \in 1 .. n, iter[1 .. (k - 1)] \in Sim
      PROVE  iter[1 .. k] = F[k][iter[1 .. (k - 1)]]
  <2>1. Max(1 .. k) = k /\ (1 .. k) \ {k} = 1 .. (k - 1)
    BY GreatestOfInterval
  <2>2. 1 .. k \in SUBSET (1 .. n) /\ 1 .. k # {}
    BY <1>1, InitialInterval
  <2>3. iter[1 .. k] = One(iter[(1 .. k) \ {Max(1 .. k)}], trades[Max(1 .. k)])
    <3>1. iter = [x \in SUBSET (1 .. n) |->
                    IF x = {} THEN s ELSE One(iter[x \ {Max(x)}], trades[Max(x)])]
      BY <1>5
    <3> HIDE DEF iter, n, One
    <3>2. QED
      BY <2>2, <3>1
  <2> HIDE DEF iter, n, One, F
  <2>4. QED
    BY <1>2, <1>8, <2>1, <2>3
<1> HIDE DEF iter, n, F, choice
<1>9. PICK p \in [0 .. n -> Sim] : FoldSteps(p, n, s, F) /\ p[n] = iter[1 .. n]
  <2>1. FoldIter(iter, n, Sim, s, F)
    BY <1>7, <1>8 DEF FoldIter
  <2>2. QED
    <3> DEFINE V == Sim
    <3>1. s \in V /\ FoldIter(iter, n, V, s, F) /\ \A i \in 1 .. n : \A v \in V : F[i][v] \in V
      BY <1>3, <2>1
    <3> HIDE DEF V
    <3>2. \E p \in [0 .. n -> V] : FoldSteps(p, n, s, F) /\ p[n] = iter[1 .. n]
      BY <1>1, <3>1, FoldPath
    <3>3. QED
      BY <3>2 DEF V
<1>10. QED
  BY <1>6, <1>9 DEF n, F, IsTouchPath

(* Without trades nothing is filled. *)
LEMMA TouchEmpty ==
  ASSUME NEW s \in Sim, NEW midPx \in Int
  PROVE  CheckTouchFill(s, <<>>, midPx) = s
<1>1. <<>> \in Seq(MarketTrade) /\ Len(<<>>) = 0
  OBVIOUS
<1>2. PICK p : IsTouchPath(p, s, <<>>, midPx)
  BY <1>1, TouchPath
<1>3. QED
  BY <1>1, <1>2 DEF FoldSteps, IsTouchPath

(* One more trade is checked against what the trades before it left. *)
LEMMA TouchAppend ==
  ASSUME NEW s \in Sim, NEW trades \in Seq(MarketTrade), NEW trade \in MarketTrade, NEW midPx \in Int
  PROVE  /\ CheckTouchFill(s, trades, midPx) \in Sim
         /\ CheckTouchFill(s, Append(trades, trade), midPx) =
              OneTrade(CheckTouchFill(s, trades, midPx), trade, midPx)
<1> DEFINE n == Len(trades)
           more == Append(trades, trade)
           F == TouchStep(trades, midPx)
           G == TouchStep(more, midPx)
<1>1. n \in Nat /\ more \in Seq(MarketTrade) /\ Len(more) = n + 1 /\ more[n + 1] = trade
      /\ \A i \in 1 .. n : more[i] = trades[i]
  BY AppendFacts
<1>2. PICK p : p \in [0 .. n -> Sim] /\ FoldSteps(p, n, s, F) /\ CheckTouchFill(s, trades, midPx) = p[n]
  <2>1. PICK p : IsTouchPath(p, s, trades, midPx)
    BY TouchPath
  <2>2. QED
    BY <2>1 DEF IsTouchPath
<1>3. PICK q : FoldSteps(q, n + 1, s, G) /\ CheckTouchFill(s, more, midPx) = q[n + 1]
  <2> HIDE DEF more, n
  <2>1. PICK q : IsTouchPath(q, s, more, midPx)
    BY <1>1, TouchPath
  <2>2. QED
    BY <1>1, <2>1 DEF IsTouchPath
<1>4. \A i \in 1 .. n : G[i] = F[i]
  <2> TAKE i \in 1 .. n
  <2> HIDE DEF more, n
  <2>1. i \in 1 .. Len(more) /\ i \in 1 .. Len(trades) /\ more[i] = trades[i]
    BY <1>1 DEF n
  <2>2. QED
    BY <2>1 DEF TouchStep
<1> HIDE DEF F, G, n, more
<1>5. q[n + 1] = G[n + 1][p[n]]
  BY <1>1, <1>2, <1>3, <1>4, FoldAppend
<1>6. G[n + 1][p[n]] = OneTrade(p[n], trade, midPx) /\ p[n] \in Sim
  <2>1. n + 1 \in 1 .. Len(more) /\ p[n] \in Sim
    BY <1>1, <1>2
  <2>2. QED
    BY <1>1, <2>1 DEF G, TouchStep
<1>7. QED
  BY <1>2, <1>3, <1>5, <1>6 DEF more

-----------------------------------------------------------------------------
(* The trades of a tick                                                    *)

(* Orders on a side, as a number. *)
Rests(s, side) == IF s.orders[side] = Undefined THEN 0 ELSE 1

(* The size of the order on a side that is gone in r. *)
GoneSize(s, r, side) ==
  IF s.orders[side] # Undefined /\ r.orders[side] = Undefined THEN s.orders[side].size ELSE 0

(* The fills of s are the first ones of r, and those behind them were made  *)
(* from orders of s by trades of T that touched them.                      *)
FillsOf(s, r, T, midPx) ==
  /\ Len(s.fills) <= Len(r.fills)
  /\ \A i \in 1 .. Len(s.fills) : r.fills[i] = s.fills[i]
  /\ \A i \in Len(s.fills) + 1 .. Len(r.fills) : \E d \in Sides : \E trade \in T :
       IsTouched(s, d, trade) /\ r.fills[i] = FillOf(s.orders[d], d, trade, midPx)

(* What is counted stays in step. *)
Counts(s, r) ==
  /\ Len(r.fills) + Rests(r, "buy") + Rests(r, "sell") = Len(s.fills) + Rests(s, "buy") + Rests(s, "sell")
  /\ r.position - NetFilled(r.fills) = s.position - NetFilled(s.fills)
  /\ r.position = s.position + GoneSize(s, r, "buy") - GoneSize(s, r, "sell")
  /\ \A d \in Sides : s.orders[d] # Undefined /\ r.orders[d] = Undefined =>
       \E i \in 1 .. Len(r.fills) : r.fills[i].size = s.orders[d].size

Carried(s, r, T, midPx) == r \in Sim /\ Thinner(s, r) /\ FillsOf(s, r, T, midPx) /\ Counts(s, r)

(* No trade has to be taken for a simulation to be one that trades lead    *)
(* to.                                                                     *)
LEMMA CarriedAlready ==
  ASSUME NEW s \in Sim, NEW T, NEW midPx \in Int
  PROVE  Carried(s, s, T, midPx)
<1>1. Len(s.fills) \in Nat /\ s.position \in Int
  BY LenProperties DEF Sim
<1>2. Thinner(s, s) /\ FillsOf(s, s, T, midPx)
  BY <1>1 DEF Thinner, FillsOf
<1>3. GoneSize(s, s, "buy") = 0 /\ GoneSize(s, s, "sell") = 0
  BY DEF GoneSize
<1>4. Counts(s, s)
  BY <1>1, <1>3 DEF Counts
<1>5. QED
  BY <1>2, <1>4 DEF Carried

(* One more step of one side leads on to what trades lead to: the counts   *)
(* stay in step and the new fill has its trade.                            *)
LEMMA TouchSideCarries ==
  ASSUME NEW s \in Sim, NEW r, NEW T, NEW midPx \in Int, NEW side \in Sides, NEW trade \in MarketTrade,
         trade \in T, Carried(s, r, T, midPx)
  PROVE  Carried(s, TouchSide(r, side, trade, midPx), T, midPx)
<1> DEFINE q == TouchSide(r, side, trade, midPx)
           n == Len(r.fills)
           order == r.orders[side]
           fill == FillOf(order, side, trade, midPx)
<1>0. Sides = {"buy", "sell"} /\ "buy" # "sell"
  BY DEF Sides
<1>1. r \in Sim /\ Thinner(s, r) /\ FillsOf(s, r, T, midPx) /\ Counts(s, r)
  BY DEF Carried
<1>2. q \in Sim
  BY <1>1, TouchSideFacts
<1>3. CASE ~IsTouched(r, side, trade)
  <2>1. q = r
    BY <1>1, <1>3, TouchSideFacts
  <2>2. QED
    BY <2>1
<1>4. CASE IsTouched(r, side, trade)
  <2>1. /\ BecomesFill(r, q, side, trade, midPx)
        /\ order \in SimOrder /\ fill \in Fill
    BY <1>1, <1>4, TouchSideFacts
  <2>2. order # Undefined /\ order = s.orders[side] /\ IsTouched(s, side, trade)
    BY <1>1, <1>4 DEF IsTouched, Thinner
  <2> HIDE DEF q
  <2>3. DOMAIN r.orders = Sides /\ q.orders = [r.orders EXCEPT ![side] = Undefined]
    BY <1>1, <2>1 DEF Sim, BecomesFill
  <2>4. q.orders[side] = Undefined /\ \A d \in Sides \ {side} : q.orders[d] = r.orders[d]
    BY <2>3
  <2>5. Thinner(s, q)
    BY <1>1, <2>1, <2>4 DEF Thinner, BecomesFill
  <2>6. r.fills \in Seq(Fill) /\ q.fills = Append(r.fills, fill)
    BY <1>1, <2>1 DEF Sim, BecomesFill
  <2>7. n \in Nat /\ Len(q.fills) = n + 1 /\ q.fills[n + 1] = fill /\ \A i \in 1 .. n : q.fills[i] = r.fills[i]
    <3> HIDE DEF fill
    <3>1. QED
      BY <2>1, <2>6, AppendFacts
  <2>8. Len(s.fills) \in Nat
    BY LenProperties DEF Sim
  <2> HIDE DEF n
  <2>9. FillsOf(s, q, T, midPx)
    <3>1. Len(s.fills) <= n /\ \A i \in 1 .. Len(s.fills) : r.fills[i] = s.fills[i]
      BY <1>1 DEF FillsOf, n
    <3>2. \A i \in 1 .. Len(s.fills) : i \in 1 .. n
      BY <2>7, <2>8, <3>1
    <3>3. ASSUME NEW i \in Len(s.fills) + 1 .. n + 1
          PROVE  \E d \in Sides : \E u \in T :
                   IsTouched(s, d, u) /\ q.fills[i] = FillOf(s.orders[d], d, u, midPx)
      <4>1. CASE i = n + 1
        BY <2>2, <2>7, <4>1
      <4>2. CASE i # n + 1
        <5>1. i \in 1 .. n /\ i \in Len(s.fills) + 1 .. n
          BY <2>7, <2>8, <4>2
        <5>2. q.fills[i] = r.fills[i]
          BY <2>7, <5>1
        <5>3. QED
          BY <1>1, <5>1, <5>2 DEF FillsOf, n
      <4>3. QED
        BY <4>1, <4>2
    <3>4. QED
      BY <2>7, <2>8, <3>1, <3>2, <3>3 DEF FillsOf
  <2>10. Counts(s, q)
    <3>1. order.size \in Nat /\ r.position \in Int /\ s.position \in Int
      BY <1>1, <2>1 DEF SimOrder, Sim
    <3>2. Rests(r, side) = 1 /\ Rests(q, side) = 0 /\ \A d \in Sides \ {side} : Rests(q, d) = Rests(r, d)
      BY <2>2, <2>4 DEF Rests
    <3>3. Len(q.fills) + Rests(q, "buy") + Rests(q, "sell") = Len(s.fills) + Rests(s, "buy") + Rests(s, "sell")
      <4>1. n + Rests(r, "buy") + Rests(r, "sell") = Len(s.fills) + Rests(s, "buy") + Rests(s, "sell")
        BY <1>1 DEF Counts, n
      <4>2. Rests(r, "buy") \in Int /\ Rests(r, "sell") \in Int
        BY DEF Rests
      <4>3. CASE side = "buy"
        BY <1>0, <2>7, <3>2, <4>1, <4>2, <4>3
      <4>4. CASE side = "sell"
        BY <1>0, <2>7, <3>2, <4>1, <4>2, <4>4
      <4>5. QED
        BY <1>0, <4>3, <4>4
    <3>4. q.position = r.position + Signed(side, order.size)
      BY <2>1 DEF BecomesFill
    <3>5. NetFilled(r.fills) \in Int /\ NetFilled(q.fills) = NetFilled(r.fills) + Signed(side, order.size)
      <4>1. fill.side = side /\ fill.size = order.size
        BY DEF FillOf
      <4> HIDE DEF fill
      <4>2. QED
        BY <2>1, <2>6, <4>1, NetFilledAppend
    <3>6. Signed(side, order.size) \in Int
      BY <3>1 DEF Signed
    <3>7. q.position - NetFilled(q.fills) = s.position - NetFilled(s.fills)
      <4>1. r.position - NetFilled(r.fills) = s.position - NetFilled(s.fills)
        BY <1>1 DEF Counts
      <4>2. q.position - NetFilled(q.fills) = r.position - NetFilled(r.fills)
        BY <3>1, <3>4, <3>5, <3>6
      <4>3. QED
        BY <4>1, <4>2
    <3>8. q.position = s.position + GoneSize(s, q, "buy") - GoneSize(s, q, "sell")
      <4>1. r.position = s.position + GoneSize(s, r, "buy") - GoneSize(s, r, "sell")
        BY <1>1 DEF Counts
      <4>2. GoneSize(s, r, side) = 0 /\ GoneSize(s, q, side) = order.size
        BY <2>2, <2>4 DEF GoneSize
      <4>3. \A d \in Sides \ {side} : GoneSize(s, q, d) = GoneSize(s, r, d)
        BY <2>4 DEF GoneSize
      <4>4. \A d \in Sides : GoneSize(s, r, d) \in Int
        <5> TAKE d \in Sides
        <5>1. s.orders[d] # Undefined => s.orders[d].size \in Nat
          BY DEF Sim, SimOrder
        <5>2. QED
          BY <5>1 DEF GoneSize
      <4>5. CASE side = "buy"
        BY <1>0, <3>1, <3>4, <4>1, <4>2, <4>3, <4>4, <4>5 DEF Signed
      <4>6. CASE side = "sell"
        BY <1>0, <3>1, <3>4, <4>1, <4>2, <4>3, <4>4, <4>6 DEF Signed
      <4>7. QED
        BY <1>0, <4>5, <4>6
    <3>9. ASSUME NEW d \in Sides, s.orders[d] # Undefined, q.orders[d] = Undefined
          PROVE  \E i \in 1 .. Len(q.fills) : q.fills[i].size = s.orders[d].size
      <4>1. CASE d = side
        <5>1. fill.size = s.orders[d].size
          BY <2>2, <4>1 DEF FillOf
        <5> HIDE DEF fill
        <5>2. QED
          BY <2>7, <5>1
      <4>2. CASE d # side
        <5>1. r.orders[d] = Undefined
          BY <2>4, <3>9, <4>2
        <5>2. PICK i \in 1 .. n : r.fills[i].size = s.orders[d].size
          BY <1>1, <3>9, <5>1 DEF Counts, n
        <5>3. i \in 1 .. n + 1 /\ q.fills[i] = r.fills[i]
          BY <2>7
        <5>4. QED
          BY <2>7, <5>2, <5>3
      <4>3. QED
        BY <4>1, <4>2
    <3>10. QED
      BY <3>3, <3>7, <3>8, <3>9 DEF Counts
  <2>11. QED
    BY <1>2, <2>5, <2>9, <2>10 DEF Carried, q
<1>5. QED
  BY <1>3, <1>4

(* More trades explain the fills of fewer. *)
LEMMA CarriedMore ==
  ASSUME NEW s, NEW r, NEW T, NEW U, NEW midPx, T \subseteq U, Carried(s, r, T, midPx)
  PROVE  Carried(s, r, U, midPx)
<1>1. r \in Sim /\ Thinner(s, r) /\ FillsOf(s, r, T, midPx) /\ Counts(s, r)
  BY DEF Carried
<1>2. FillsOf(s, r, U, midPx)
  BY <1>1 DEF FillsOf
<1>3. QED
  BY <1>1, <1>2 DEF Carried

Items(seq) == {seq[i] : i \in DOMAIN seq}

(* After a tick's trades the orders that are left were touched by none of   *)
(* them, and the others became fills.                                      *)
LEMMA CheckTouchFillFacts ==
  ASSUME NEW s \in Sim, NEW trades \in Seq(MarketTrade), NEW midPx \in Int
  PROVE  /\ Carried(s, CheckTouchFill(s, trades, midPx), Items(trades), midPx)
         /\ \A d \in Sides : \A i \in DOMAIN trades :
              ~IsTouched(CheckTouchFill(s, trades, midPx), d, trades[i])
<1> DEFINE R(ts) == CheckTouchFill(s, ts, midPx)
           Free(ts) == \A d \in Sides : \A i \in DOMAIN ts : ~IsTouched(R(ts), d, ts[i])
           Good == {ts \in Seq(MarketTrade) : Carried(s, R(ts), Items(ts), midPx) /\ Free(ts)}
<1>1. <<>> \in Good
  <2>1. R(<<>>) = s
    BY TouchEmpty
  <2>2. <<>> \in Seq(MarketTrade) /\ DOMAIN <<>> = {}
    OBVIOUS
  <2>3. Carried(s, R(<<>>), Items(<<>>), midPx)
    BY <2>1, CarriedAlready
  <2>4. Free(<<>>)
    BY <2>2
  <2> HIDE DEF Free, R
  <2>5. QED
    BY <2>2, <2>3, <2>4
<1>2. ASSUME NEW ts \in Good, NEW trade \in MarketTrade PROVE Append(ts, trade) \in Good
  <2> DEFINE more == Append(ts, trade)
             n == Len(ts)
             r == R(ts)
             b == TouchSide(r, "buy", trade, midPx)
             q == TouchSide(b, "sell", trade, midPx)
  <2>1. ts \in Seq(MarketTrade) /\ Carried(s, r, Items(ts), midPx) /\ Free(ts)
    OBVIOUS
  <2>2. /\ n \in Nat /\ more \in Seq(MarketTrade) /\ DOMAIN more = 1 .. n + 1 /\ more[n + 1] = trade
        /\ DOMAIN ts = 1 .. n /\ \A i \in 1 .. n : more[i] = ts[i]
    <3>1. ts \in Seq(MarketTrade)
      BY <2>1
    <3> HIDE DEF Good
    <3>2. more \in Seq(MarketTrade) /\ n \in Nat /\ Len(more) = n + 1 /\ more[n + 1] = trade
          /\ \A i \in 1 .. n : more[i] = ts[i]
      BY <3>1, AppendFacts
    <3> HIDE DEF more, n
    <3>3. DOMAIN more = 1 .. n + 1 /\ DOMAIN ts = 1 .. n
      BY <3>1, <3>2, LenProperties DEF n
    <3>4. QED
      BY <3>2, <3>3
  <2>3. Items(ts) \subseteq Items(more) /\ trade \in Items(more)
    <3> HIDE DEF Good, more, n
    <3>1. \A i \in 1 .. n : i \in 1 .. n + 1
      BY <2>2
    <3>2. n + 1 \in 1 .. n + 1
      BY <2>2
    <3>3. QED
      BY <2>2, <3>1, <3>2 DEF Items
  <2>4. R(more) = q /\ q = OneTrade(r, trade, midPx)
    BY <2>1, TouchAppend DEF OneTrade
  <2>5. "buy" \in Sides /\ "sell" \in Sides
    BY DEF Sides
  <2> HIDE DEF Good, more, n, r, b, q
  <2>6. Carried(s, r, Items(more), midPx)
    BY <2>1, <2>3, CarriedMore
  <2>7. Carried(s, b, Items(more), midPx)
    BY <2>3, <2>5, <2>6, TouchSideCarries DEF b
  <2>8. Carried(s, q, Items(more), midPx)
    BY <2>3, <2>5, <2>7, TouchSideCarries DEF q
  <2>9. ASSUME NEW d \in Sides, NEW i \in DOMAIN more PROVE ~IsTouched(q, d, more[i])
    <3>1. r \in Sim
      BY <2>6 DEF Carried
    <3>2. Thinner(r, q) /\ ~IsTouched(q, d, trade)
      BY <2>4, <3>1, OneTradeKeeps
    <3>3. CASE i = n + 1
      BY <2>2, <3>2, <3>3
    <3>4. CASE i \in 1 .. n
      <4>1. ~IsTouched(r, d, ts[i])
        BY <2>1, <2>2, <3>4 DEF r
      <4>2. QED
        BY <2>2, <3>2, <3>4, <4>1 DEF IsTouched, Thinner
    <3>5. QED
      BY <2>2, <3>3, <3>4
  <2>10. QED
    BY <2>2, <2>4, <2>8, <2>9 DEF Good, more
<1>3. Good = Seq(MarketTrade)
  <2>1. Good \in SUBSET Seq(MarketTrade)
    OBVIOUS
  <2> HIDE DEF Good
  <2>2. QED
    BY <1>1, <1>2, <2>1, SeqInduction
<1>4. QED
  BY <1>3

-----------------------------------------------------------------------------
(* The calculators return integers                                         *)

(* A quotient by a positive number is an integer, and a natural number of  *)
(* a natural number.                                                       *)
LEMMA QuotientType ==
  ASSUME NEW a \in Int, NEW b \in Nat \ {0}
  PROVE  Quotient(a, b) \in Int /\ (a \in Nat => Quotient(a, b) \in Nat)
BY DEF Quotient

(* An absolute value is a natural number. *)
LEMMA AbsType == ASSUME NEW x \in Int PROVE AbsVal(x) \in Nat
BY DEF AbsVal

(* A product of integers is an integer; stated alone, because the provers  *)
(* do not find it among other facts.                                       *)
LEMMA ProductType == ASSUME NEW x \in Int, NEW y \in Int PROVE x * y \in Int
OBVIOUS

(* A square is a natural number. *)
LEMMA SquareType == ASSUME NEW x \in Int PROVE x * x \in Nat
OBVIOUS

(* A fold in any order stays in the set its steps stay in. *)
LEMMA FoldType ==
  ASSUME NEW n \in Nat, NEW V, NEW it, NEW choice,
         \A s \in SUBSET (1 .. n) : s # {} => choice[s] \in s,
         it[{}] \in V,
         \A s \in SUBSET (1 .. n) : s # {} /\ it[s \ {choice[s]}] \in V => it[s] \in V
  PROVE  it[1 .. n] \in V
<1> DEFINE Sets == SUBSET (1 .. n)
           Good == {k \in Nat : \A s \in Sets : Cardinality(s) <= k => it[s] \in V}
<1>1. \A s \in Sets : IsFiniteSet(s) /\ Cardinality(s) \in Nat /\ Cardinality(s) <= n
  <2> TAKE s \in Sets
  <2>1. IsFiniteSet(1 .. n) /\ Cardinality(1 .. n) = n
    BY FS_Interval
  <2>2. IsFiniteSet(s) /\ Cardinality(s) <= Cardinality(1 .. n)
    BY <2>1, FS_Subset
  <2>3. Cardinality(s) \in Nat
    BY <2>2, FS_CardinalityType
  <2>4. QED
    BY <2>1, <2>2, <2>3
<1>2. \A s \in Sets : Cardinality(s) = 0 => s = {}
  BY <1>1, FS_EmptySet
<1>3. 0 \in Good
  <2> SUFFICES ASSUME NEW s \in Sets, Cardinality(s) <= 0 PROVE it[s] \in V
    OBVIOUS
  <2>1. Cardinality(s) = 0
    BY <1>1
  <2>2. s = {}
    BY <1>2, <2>1
  <2>3. QED
    BY <2>2
<1>4. ASSUME NEW k \in Good PROVE k + 1 \in Good
  <2> SUFFICES ASSUME NEW s \in Sets, Cardinality(s) <= k + 1 PROVE it[s] \in V
    OBVIOUS
  <2>1. CASE s = {}
    BY <2>1
  <2>2. CASE s # {}
    <3> DEFINE r == s \ {choice[s]}
    <3>1. r \in Sets /\ Cardinality(r) = Cardinality(s) - 1
      BY <1>1, <2>2, FS_RemoveElement
    <3>2. Cardinality(s) \in Nat /\ Cardinality(s) <= k + 1
      BY <1>1
    <3> HIDE DEF r
    <3>3. Cardinality(r) <= k
      BY <3>1, <3>2
    <3>4. it[r] \in V
      BY <3>1, <3>3
    <3>5. QED
      BY <2>2, <3>4 DEF r
  <2>3. QED
    BY <2>1, <2>2
<1>5. Good = Nat
  <2>1. Good \in SUBSET Nat
    OBVIOUS
  <2> HIDE DEF Good
  <2>2. QED
    BY <1>3, <1>4, <2>1, SetInduction
<1>6. 1 .. n \in Sets
  OBVIOUS
<1>7. QED
  BY <1>1, <1>5, <1>6

(* The sum of the returns is an integer. *)
LEMMA SumOfReturnsType ==
  ASSUME NEW n \in Nat, NEW rs \in [1 .. n -> Int]
  PROVE  FoldSeq(+, 0, rs) \in Int
<1> DEFINE choice == [s \in SUBSET (1 .. n) |-> CHOOSE x \in s : TRUE]
           Op(r, sum) == r + sum
           F == [i \in 1 .. n |-> [v \in Int |-> Op(rs[i], v)]]
           Eq(it) == it = [s \in SUBSET (1 .. n) |->
                             IF s = {} THEN 0
                             ELSE Op(rs[CHOOSE x \in s : TRUE], it[s \ {CHOOSE x \in s : TRUE}])]
           iter == CHOOSE it : Eq(it)
<1>1. \A s \in SUBSET (1 .. n) : s # {} => choice[s] \in s /\ choice[s] = CHOOSE x \in s : TRUE
  OBVIOUS
<1>2. ASSUME NEW i \in 1 .. n, NEW v \in Int PROVE Op(rs[i], v) \in Int /\ F[i][v] = Op(rs[i], v)
  OBVIOUS
<1>3. FoldSeq(+, 0, rs) = iter[1 .. n]
  BY DEF FoldSeq, FoldFunction, FoldFunctionOnSet, MapThenFoldSet
<1> HIDE DEF Op
<1>4. Eq(iter)
  <2>1. \A i \in 1 .. n : \A v \in Int : F[i][v] \in Int
    BY <1>2
  <2> HIDE DEF F, choice
  <2>2. PICK it \in [SUBSET (1 .. n) -> Int] : FoldEquation(it, n, 0, F, choice)
    <3> DEFINE V == Int
               base == 0
    <3>1. base \in V /\ \A i \in 1 .. n : \A v \in V : F[i][v] \in V
      BY <2>1
    <3> HIDE DEF V, base
    <3>2. \E it \in [SUBSET (1 .. n) -> V] : FoldEquation(it, n, base, F, choice)
      BY <1>1, <3>1, FoldExists
    <3>3. QED
      BY <3>2 DEF V, base
  <2>3. ASSUME NEW s \in SUBSET (1 .. n)
        PROVE  it[s] = IF s = {} THEN 0
                       ELSE Op(rs[CHOOSE x \in s : TRUE], it[s \ {CHOOSE x \in s : TRUE}])
    <3>1. CASE s = {}
      BY <2>2, <3>1 DEF FoldEquation
    <3>2. CASE s # {}
      <4> DEFINE c == choice[s]
      <4>1. c \in 1 .. n /\ c = (CHOOSE x \in s : TRUE) /\ s \ {c} \in SUBSET (1 .. n)
        BY <1>1, <3>2
      <4>2. it[s] = F[c][it[s \ {c}]]
        BY <2>2, <3>2 DEF FoldEquation
      <4> HIDE DEF c
      <4>3. it[s \ {c}] \in Int
        BY <2>2, <4>1
      <4>4. it[s] = Op(rs[c], it[s \ {c}])
        BY <1>2, <4>1, <4>2, <4>3
      <4>5. QED
        BY <3>2, <4>1, <4>4
    <3>3. QED
      BY <3>1, <3>2
  <2>4. Eq(it)
    BY <2>2, <2>3
  <2>5. QED
    BY <2>4
<1> HIDE DEF iter
<1>5. iter[{}] \in Int
  BY <1>4
<1>6. ASSUME NEW s \in SUBSET (1 .. n), s # {}, iter[s \ {choice[s]}] \in Int PROVE iter[s] \in Int
  <2> DEFINE c == choice[s]
  <2>1. c \in 1 .. n /\ c = CHOOSE x \in s : TRUE
    BY <1>1, <1>6
  <2>2. iter[s] = Op(rs[CHOOSE x \in s : TRUE], iter[s \ {CHOOSE x \in s : TRUE}])
    BY <1>4, <1>6
  <2> HIDE DEF c
  <2>3. iter[s] = Op(rs[c], iter[s \ {c}])
    BY <2>1, <2>2
  <2>4. QED
    BY <1>2, <1>6, <2>1, <2>3 DEF c
<1>7. iter[1 .. n] \in Int
  <2> HIDE DEF choice
  <2>1. QED
    BY <1>1, <1>5, <1>6, FoldType
<1>8. QED
  BY <1>3, <1>7

(* The sum of the squared deviations is a natural number. *)
LEMMA SumOfSquaresType ==
  ASSUME NEW n \in Nat, NEW rs \in [1 .. n -> Int], NEW mean \in Int
  PROVE  FoldSeq(LAMBDA r, sum : sum + (r - mean) * (r - mean), 0, rs) \in Nat
<1> DEFINE choice == [s \in SUBSET (1 .. n) |-> CHOOSE x \in s : TRUE]
           Op(r, sum) == sum + (r - mean) * (r - mean)
           F == [i \in 1 .. n |-> [v \in Nat |-> Op(rs[i], v)]]
           Eq(it) == it = [s \in SUBSET (1 .. n) |->
                             IF s = {} THEN 0
                             ELSE Op(rs[CHOOSE x \in s : TRUE], it[s \ {CHOOSE x \in s : TRUE}])]
           iter == CHOOSE it : Eq(it)
<1>1. \A s \in SUBSET (1 .. n) : s # {} => choice[s] \in s /\ choice[s] = CHOOSE x \in s : TRUE
  OBVIOUS
<1>2. ASSUME NEW i \in 1 .. n, NEW v \in Nat PROVE Op(rs[i], v) \in Nat /\ F[i][v] = Op(rs[i], v)
  <2>1. (rs[i] - mean) * (rs[i] - mean) \in Nat
    BY SquareType
  <2>2. QED
    BY <2>1
<1>3. FoldSeq(LAMBDA r, sum : sum + (r - mean) * (r - mean), 0, rs) = iter[1 .. n]
  BY DEF FoldSeq, FoldFunction, FoldFunctionOnSet, MapThenFoldSet
<1> HIDE DEF Op
<1>4. Eq(iter)
  <2>1. \A i \in 1 .. n : \A v \in Nat : F[i][v] \in Nat
    BY <1>2
  <2> HIDE DEF F, choice
  <2>2. PICK it \in [SUBSET (1 .. n) -> Nat] : FoldEquation(it, n, 0, F, choice)
    <3> DEFINE V == Nat
               base == 0
    <3>1. base \in V /\ \A i \in 1 .. n : \A v \in V : F[i][v] \in V
      BY <2>1
    <3> HIDE DEF V, base
    <3>2. \E it \in [SUBSET (1 .. n) -> V] : FoldEquation(it, n, base, F, choice)
      BY <1>1, <3>1, FoldExists
    <3>3. QED
      BY <3>2 DEF V, base
  <2>3. ASSUME NEW s \in SUBSET (1 .. n)
        PROVE  it[s] = IF s = {} THEN 0
                       ELSE Op(rs[CHOOSE x \in s : TRUE], it[s \ {CHOOSE x \in s : TRUE}])
    <3>1. CASE s = {}
      BY <2>2, <3>1 DEF FoldEquation
    <3>2. CASE s # {}
      <4> DEFINE c == choice[s]
      <4>1. c \in 1 .. n /\ c = (CHOOSE x \in s : TRUE) /\ s \ {c} \in SUBSET (1 .. n)
        BY <1>1, <3>2
      <4>2. it[s] = F[c][it[s \ {c}]]
        BY <2>2, <3>2 DEF FoldEquation
      <4> HIDE DEF c
      <4>3. it[s \ {c}] \in Nat
        BY <2>2, <4>1
      <4>4. it[s] = Op(rs[c], it[s \ {c}])
        BY <1>2, <4>1, <4>2, <4>3
      <4>5. QED
        BY <3>2, <4>1, <4>4
    <3>3. QED
      BY <3>1, <3>2
  <2>4. Eq(it)
    BY <2>2, <2>3
  <2>5. QED
    BY <2>4
<1> HIDE DEF iter
<1>5. iter[{}] \in Nat
  BY <1>4
<1>6. ASSUME NEW s \in SUBSET (1 .. n), s # {}, iter[s \ {choice[s]}] \in Nat PROVE iter[s] \in Nat
  <2> DEFINE c == choice[s]
  <2>1. c \in 1 .. n /\ c = CHOOSE x \in s : TRUE
    BY <1>1, <1>6
  <2>2. iter[s] = Op(rs[CHOOSE x \in s : TRUE], iter[s \ {CHOOSE x \in s : TRUE}])
    BY <1>4, <1>6
  <2> HIDE DEF c
  <2>3. iter[s] = Op(rs[c], iter[s \ {c}])
    BY <2>1, <2>2
  <2>4. QED
    BY <1>2, <1>6, <2>1, <2>3 DEF c
<1>7. iter[1 .. n] \in Nat
  <2> HIDE DEF choice
  <2>1. QED
    BY <1>1, <1>5, <1>6, FoldType
<1>8. QED
  BY <1>3, <1>7

(* There is an integer square root, so that the CHOOSE of the volatility   *)
(* has a value.                                                            *)
LEMMA SquareRootExists ==
  ASSUME NEW v \in Nat
  PROVE  \E s \in 0 .. v : s * s <= v /\ (s + 1) * (s + 1) > v
<1> DEFINE Root(s, w) == s * s <= w /\ (s + 1) * (s + 1) > w
           Good == {w \in Nat : \E s \in Nat : Root(s, w)}
<1>1. 0 \in Good
  OBVIOUS
<1>2. ASSUME NEW w \in Good PROVE w + 1 \in Good
  <2>1. PICK s \in Nat : Root(s, w)
    OBVIOUS
  <2> DEFINE a == (s + 1) * (s + 1)
             b == (s + 2) * (s + 2)
  <2>2. a \in Nat /\ b \in Nat /\ s * s \in Nat /\ b > a
    OBVIOUS
  <2>3. CASE a > w + 1
    BY <2>1, <2>2, <2>3
  <2>4. CASE ~(a > w + 1)
    <3>1. a <= w + 1 /\ b > w + 1
      <4> HIDE DEF a, b
      <4>1. a > w
        BY <2>1 DEF a
      <4>2. QED
        BY <2>2, <2>4, <4>1
    <3>2. Root(s + 1, w + 1)
      <4>1. (s + 1) + 1 = s + 2
        OBVIOUS
      <4>2. QED
        BY <3>1, <4>1
    <3>3. s + 1 \in Nat
      OBVIOUS
    <3> HIDE DEF Root
    <3>4. QED
      BY <3>2, <3>3
  <2>5. QED
    BY <2>3, <2>4
<1>3. Good = Nat
  <2>1. Good \in SUBSET Nat
    OBVIOUS
  <2> HIDE DEF Good
  <2>2. QED
    BY <1>1, <1>2, <2>1, SetInduction
<1>4. PICK s \in Nat : Root(s, v)
  BY <1>3
<1>5. s <= s * s
  OBVIOUS
<1>6. s \in 0 .. v
  <2>1. s * s \in Nat /\ s * s <= v
    BY <1>4
  <2>2. QED
    BY <1>5, <2>1
<1>7. QED
  BY <1>4, <1>6

MidSnapshot == [ts : Int, midPx : Nat \ {0}]

MarketState ==
  [bestBidPx : Nat, bestAskPx : Nat, markPx : OptInt, indexPx : OptInt, lastUpdateMs : Int,
   trades : Seq(MarketTrade), midSnapshots : Seq(MidSnapshot)]

(* The realized volatility is an integer. *)
LEMMA RealizedVolType ==
  ASSUME NEW mids \in Seq(MidSnapshot)
  PROVE  RealizedVol10s(mids) \in Int
<1> DEFINE n == Len(mids) - 1
           returns == [i \in 1 .. n |-> Quotient(Bps * (mids[i + 1].midPx - mids[i].midPx), mids[i].midPx)]
           mean == Quotient(FoldSeq(+, 0, returns), n)
           sum == FoldSeq(LAMBDA r, total : total + (r - mean) * (r - mean), 0, returns)
           variance == sum \div n
           root == CHOOSE s \in 0 .. variance : s * s <= variance /\ (s + 1) * (s + 1) > variance
<1>1. Len(mids) \in Nat /\ n \in Int /\ \A i \in 1 .. Len(mids) : mids[i] \in MidSnapshot
  BY LenProperties
<1>2. RealizedVol10s(mids) = IF n < 1 THEN 0 ELSE root
  BY DEF RealizedVol10s
<1>3. CASE n < 1
  <2> HIDE DEF n, root
  <2>1. QED
    BY <1>2, <1>3
<1>4. CASE ~(n < 1)
  <2>1. n \in Nat \ {0}
    BY <1>1, <1>4
  <2>2. returns \in [1 .. n -> Int]
    <3>1. ASSUME NEW i \in 1 .. n
          PROVE  Quotient(Bps * (mids[i + 1].midPx - mids[i].midPx), mids[i].midPx) \in Int
      <4>1. i \in 1 .. Len(mids) /\ i + 1 \in 1 .. Len(mids)
        BY <1>1
      <4>2. mids[i] \in MidSnapshot /\ mids[i + 1] \in MidSnapshot
        BY <1>1, <4>1
      <4>3. mids[i].midPx \in Nat \ {0} /\ mids[i + 1].midPx \in Nat \ {0}
        BY <4>2 DEF MidSnapshot
      <4>4. Bps * (mids[i + 1].midPx - mids[i].midPx) \in Int
        BY <4>3 DEF Bps
      <4>5. QED
        BY <4>3, <4>4, QuotientType
    <3>2. QED
      BY <3>1
  <2> HIDE DEF returns, n
  <2>3. mean \in Int
    <3>1. FoldSeq(+, 0, returns) \in Int
      BY <2>1, <2>2, SumOfReturnsType
    <3>2. QED
      BY <2>1, <3>1, QuotientType
  <2> HIDE DEF mean
  <2>4. sum \in Nat
    BY <2>1, <2>2, <2>3, SumOfSquaresType
  <2> HIDE DEF sum
  <2>5. variance \in Nat
    BY <2>1, <2>4
  <2> HIDE DEF variance
  <2>6. root \in 0 .. variance
    BY <2>5, SquareRootExists
  <2> HIDE DEF root
  <2>7. root \in Int
    BY <2>5, <2>6
  <2>8. QED
    BY <1>2, <1>4, <2>7 DEF n
<1>5. QED
  BY <1>3, <1>4

(* A set of positions of a sequence is finite. *)
LEMMA CountType ==
  ASSUME NEW V, NEW trades \in Seq(V), NEW S \in SUBSET (DOMAIN trades)
  PROVE  Cardinality(S) \in Nat
<1>1. DOMAIN trades = 1 .. Len(trades) /\ Len(trades) \in Nat
  BY LenProperties
<1>2. IsFiniteSet(1 .. Len(trades))
  BY <1>1, FS_Interval
<1>3. IsFiniteSet(S)
  BY <1>1, <1>2, FS_Subset
<1>4. QED
  BY <1>3, FS_CardinalityType

(* The trade imbalance is an integer. *)
LEMMA TradeImbalanceType ==
  ASSUME NEW trades \in Seq(MarketTrade), NEW mid
  PROVE  TradeImbalance1s(trades, mid) \in Int
<1> DEFINE buys == Cardinality({i \in DOMAIN trades : IsBuy(trades[i], mid)})
           n == Len(trades)
<1>1. buys \in Nat
  BY CountType
<1>2. n \in Nat
  BY LenProperties
<1> HIDE DEF buys
<1>3. TradeImbalance1s(trades, mid) = IF n = 0 THEN 0 ELSE Quotient(10 * (2 * buys - n), n)
  BY DEF TradeImbalance1s, Count, buys
<1> HIDE DEF n
<1>4. 10 * (2 * buys - n) \in Int
  BY <1>1, <1>2
<1>5. CASE n = 0
  BY <1>3, <1>5
<1>6. CASE n # 0
  <2>1. Quotient(10 * (2 * buys - n), n) \in Int
    BY <1>2, <1>4, <1>6, QuotientType
  <2>2. QED
    BY <1>3, <1>6, <2>1
<1>7. QED
  BY <1>5, <1>6

(* The number of liquidations is a natural number. *)
LEMMA LiqCountType ==
  ASSUME NEW trades \in Seq(MarketTrade)
  PROVE  LiqCount10s(trades) \in Nat
<1> DEFINE S == {i \in DOMAIN trades : trades[i].type \in {"liq", "delev"}}
<1>1. LiqCount10s(trades) = Cardinality(S)
  BY DEF LiqCount10s, Count
<1> HIDE DEF S
<1>2. Cardinality(S) \in Nat
  BY CountType DEF S
<1>3. QED
  BY <1>1, <1>2

FeatureRecord ==
  [midPx : Nat \ {0}, tradeImbalance1s : Int, realizedVol10s : Int, markIndexDivBps : Int,
   liqCount10s : Nat, dataStale : BOOLEAN]

(* A mid price of positive prices is positive. *)
LEMMA MidType ==
  ASSUME NEW bid \in Nat \ {0}, NEW ask \in Nat \ {0}
  PROVE  CalculateMid(bid, ask) \in Nat \ {0}
BY DEF CalculateMid

(* The features of a market that has valid data. *)
LEMMA FeaturesType ==
  ASSUME NEW m \in MarketState, NEW nowMs \in Int, HasValidData(m)
  PROVE  FeaturesAt(m, nowMs, Params) \in FeatureRecord
<1> DEFINE mid == CalculateMid(m.bestBidPx, m.bestAskPx)
           trades1s == InWindow(m.trades, nowMs, SecondMs)
           trades10s == InWindow(m.trades, nowMs, WindowMs)
           mids10s == InWindow(m.midSnapshots, nowMs, WindowMs)
           f == FeaturesAt(m, nowMs, Params)
<1>1. /\ m.bestBidPx \in Nat \ {0} /\ m.bestAskPx \in Nat \ {0}
      /\ m.trades \in Seq(MarketTrade) /\ m.midSnapshots \in Seq(MidSnapshot)
      /\ m.markPx \in OptInt /\ m.indexPx \in OptInt /\ m.lastUpdateMs \in Int
  BY DEF MarketState, HasValidData
<1>2. mid \in Nat \ {0}
  BY <1>1, MidType
<1>3. SecondMs \in Int /\ WindowMs \in Int
  BY BacktestAssumption
<1>4. trades1s \in Seq(MarketTrade) /\ trades10s \in Seq(MarketTrade) /\ mids10s \in Seq(MidSnapshot)
  BY <1>1, <1>3, WindowItems
<1>5. MarkIndexDivBps(m.markPx, m.indexPx, mid) \in Int
  <2> DEFINE mark == m.markPx
             index == m.indexPx
  <2> HIDE DEF mid, mark, index
  <2>1. CASE mark = Undefined \/ index = Undefined \/ mid = 0
    BY <2>1 DEF MarkIndexDivBps, mark, index
  <2>2. CASE ~(mark = Undefined \/ index = Undefined \/ mid = 0)
    <3>1. mark \in Int /\ index \in Int
      BY <1>1, <2>2 DEF OptInt, mark, index
    <3>2. AbsVal(mark - index) \in Nat
      BY <3>1, AbsType
    <3>3. Bps * AbsVal(mark - index) \in Int
      BY <3>2 DEF Bps
    <3>4. Quotient(Bps * AbsVal(mark - index), mid) \in Int
      BY <1>2, <3>3, QuotientType
    <3>5. QED
      BY <2>2, <3>4 DEF MarkIndexDivBps, mark, index
  <2>3. QED
    BY <2>1, <2>2
<1>6. IsDataStale(m.lastUpdateMs, nowMs, Params.staleCancelMs) \in BOOLEAN
  BY DEF IsDataStale
<1>7. f = [midPx |-> mid,
           tradeImbalance1s |-> TradeImbalance1s(trades1s, mid),
           realizedVol10s |-> RealizedVol10s(mids10s),
           markIndexDivBps |-> MarkIndexDivBps(m.markPx, m.indexPx, mid),
           liqCount10s |-> LiqCount10s(trades10s),
           dataStale |-> IsDataStale(m.lastUpdateMs, nowMs, Params.staleCancelMs)]
  BY DEF FeaturesAt, ComputeFeatures
<1>8. TradeImbalance1s(trades1s, mid) \in Int
  <2> HIDE DEF mid, trades1s
  <2>1. QED
    BY <1>4, TradeImbalanceType
<1>9. RealizedVol10s(mids10s) \in Int
  <2> HIDE DEF mids10s
  <2>1. QED
    BY <1>4, RealizedVolType
<1>10. LiqCount10s(trades10s) \in Nat
  <2> HIDE DEF trades10s
  <2>1. QED
    BY <1>4, LiqCountType
<1> HIDE DEF mid, trades1s, trades10s, mids10s
<1>11. QED
  BY <1>2, <1>5, <1>6, <1>7, <1>8, <1>9, <1>10 DEF FeatureRecord

(* Prices and size of a quote. *)
LEMMA QuoteType ==
  ASSUME NEW f \in FeatureRecord, NEW position \in Int
  PROVE  LET quote == GenerateQuoteIntent(Params, f, position)
         IN  quote.bidPx \in Int /\ quote.askPx \in Int /\ quote.size \in Nat
<1> DEFINE halfBps == CalculateHalfSpreadBps(Params, f)
           skewBps == CalculateSkewBps(Params, position)
           half == BpsToPrice(f.midPx, halfBps)
           skew == BpsToPrice(f.midPx, skewBps)
<1>1. /\ Params.baseHalfSpreadBps \in Int /\ Params.volSpreadGain \in Int /\ Params.toxSpreadGain \in Int
      /\ Params.inventorySkewGain \in Int /\ Params.quoteSizeUsd \in Int
  BY BacktestAssumption
<1>2. f.midPx \in Nat \ {0} /\ f.realizedVol10s \in Int /\ f.tradeImbalance1s \in Int
  BY DEF FeatureRecord
<1>3. halfBps \in Int
  <2>1. AbsVal(f.tradeImbalance1s) \in Int
    BY <1>2, AbsType
  <2>2. Params.volSpreadGain * f.realizedVol10s \in Int
    BY <1>1, <1>2, ProductType
  <2>3. Params.toxSpreadGain * AbsVal(f.tradeImbalance1s) \in Int
    BY <1>1, <2>1, ProductType
  <2>4. (Params.toxSpreadGain * AbsVal(f.tradeImbalance1s)) \div 10 \in Int
    BY <2>3
  <2>5. QED
    BY <1>1, <2>2, <2>4 DEF CalculateHalfSpreadBps
<1>4. skewBps \in Int
  BY <1>1, ProductType DEF CalculateSkewBps
<1>5. ASSUME NEW bps \in Int PROVE BpsToPrice(f.midPx, bps) \in Int
  <2>1. f.midPx * bps \in Int
    BY <1>2, ProductType
  <2>2. Bps \in Nat \ {0}
    BY DEF Bps
  <2>3. QED
    BY <2>1, <2>2, QuotientType DEF BpsToPrice
<1> HIDE DEF halfBps, skewBps
<1>6. half \in Int /\ skew \in Int
  BY <1>3, <1>4, <1>5
<1>7. UsdToBaseSize(Params.quoteSizeUsd, f.midPx) \in Nat
  BY <1>1, <1>2 DEF UsdToBaseSize
<1> HIDE DEF half, skew
<1>8. GenerateQuoteIntent(Params, f, position) =
        [bidPx |-> f.midPx - half - skew, askPx |-> f.midPx + half - skew,
         size |-> UsdToBaseSize(Params.quoteSizeUsd, f.midPx)]
  BY DEF GenerateQuoteIntent, CalculateQuotePrices, half, skew, halfBps, skewBps
<1>9. QED
  BY <1>2, <1>6, <1>7, <1>8

-----------------------------------------------------------------------------
(* Types and parts of the inductive invariant                              *)

(* Types, and what the strategy engine needs of its state. *)
ReplayTypes ==
  /\ tickMs \in Int /\ tickMs >= StartMs
  /\ lastRow.ts \in Int
  /\ bboData \in Seq(MidSnapshot)
  /\ market \in MarketState /\ cache \in MarketState
  /\ strategy \in StrategyState /\ DeadlineMatches(strategy)
  /\ sim \in Sim

(* The binary search needs the rows in the order of their times. *)
BboSorted ==
  \A i \in DOMAIN bboData :
    /\ bboData[i].ts <= lastRow.ts
    /\ \A j \in DOMAIN bboData : i <= j => bboData[i].ts <= bboData[j].ts

(* An order that rests was placed by an earlier tick. *)
OrdersPlaced ==
  \A side \in Resting : sim.orders[side].createdAtMs \in StartMs .. (tickMs - TickIntervalMs)

(* An order is placed on valid data, and a market stays valid. *)
RestsOnData == Resting # {} => HasValidData(market)

(* Two markets that show the same at t. *)
SameMarket(m, c, t) ==
  /\ m.bestBidPx = c.bestBidPx /\ m.bestAskPx = c.bestAskPx
  /\ m.markPx = c.markPx /\ m.indexPx = c.indexPx
  /\ m.lastUpdateMs = c.lastUpdateMs
  /\ InWindow(m.trades, t, WindowMs) = InWindow(c.trades, t, WindowMs)
  /\ InWindow(m.midSnapshots, t, WindowMs) = InWindow(c.midSnapshots, t, WindowMs)

(* The constants, one by one. *)
LEMMA ConstantTypes ==
  /\ StartMs \in Nat \ {0} /\ EndMs \in Nat /\ TickIntervalMs \in Nat \ {0} /\ TickIntervalMs <= WindowMs
  /\ WindowMs \in Nat /\ SecondMs \in Nat /\ SecondMs <= WindowMs
  /\ Params.maxInventory \in Nat
BY BacktestAssumption

-----------------------------------------------------------------------------
(* The market data                                                         *)

(* Pruning changes the two windows and nothing else. *)
LEMMA PruneFacts ==
  ASSUME NEW m \in MarketState, NEW t \in Int
  PROVE  /\ Prune(m, t) \in MarketState
         /\ HasValidData(Prune(m, t)) <=> HasValidData(m)
         /\ Prune(m, t).bestBidPx = m.bestBidPx /\ Prune(m, t).bestAskPx = m.bestAskPx
         /\ Prune(m, t).markPx = m.markPx /\ Prune(m, t).indexPx = m.indexPx
         /\ Prune(m, t).lastUpdateMs = m.lastUpdateMs
         /\ Prune(m, t).trades = InWindow(m.trades, t, WindowMs)
         /\ Prune(m, t).midSnapshots = InWindow(m.midSnapshots, t, WindowMs)
<1> DEFINE tr == InWindow(m.trades, t, WindowMs)
           mi == InWindow(m.midSnapshots, t, WindowMs)
<1>1. m.trades \in Seq(MarketTrade) /\ m.midSnapshots \in Seq(MidSnapshot) /\ WindowMs \in Int
  BY ConstantTypes DEF MarketState
<1>2. tr \in Seq(MarketTrade) /\ mi \in Seq(MidSnapshot)
  BY <1>1, WindowItems
<1>3. Prune(m, t) = [bestBidPx |-> m.bestBidPx, bestAskPx |-> m.bestAskPx, markPx |-> m.markPx,
                     indexPx |-> m.indexPx, lastUpdateMs |-> m.lastUpdateMs, trades |-> tr,
                     midSnapshots |-> mi]
  <2> DEFINE T == Seq(MarketTrade)
             M == Seq(MidSnapshot)
  <2>1. m \in [bestBidPx : Nat, bestAskPx : Nat, markPx : OptInt, indexPx : OptInt, lastUpdateMs : Int,
               trades : T, midSnapshots : M]
    BY DEF MarketState
  <2>2. Prune(m, t) = [m EXCEPT !.trades = tr, !.midSnapshots = mi]
    <3> HIDE DEF T, M
    <3>1. QED
      BY <2>1 DEF Prune
  <2> HIDE DEF T, M, tr, mi
  <2>3. QED
    BY <2>1, <2>2
<1> HIDE DEF tr, mi
<1>4. QED
  BY <1>2, <1>3 DEF MarketState, HasValidData, tr, mi

(* A trade and a mid price carry a time. *)
LEMMA ItemTypes ==
  /\ \A x \in MarketTrade : x.ts \in Int
  /\ \A x \in MidSnapshot : x.ts \in Int
BY DEF MarketTrade, MidSnapshot

(* Pruning one of two markets, or both, no later than t, changes nothing    *)
(* that is seen at t or later.                                             *)
LEMMA PruneUnseen ==
  ASSUME NEW m \in MarketState, NEW t \in Int, NEW u \in Int, t <= u
  PROVE  SameMarket(Prune(m, t), m, u)
<1>1. m.trades \in Seq(MarketTrade) /\ m.midSnapshots \in Seq(MidSnapshot) /\ WindowMs \in Int
  BY ConstantTypes DEF MarketState
<1>2. t - WindowMs <= u - WindowMs
  BY <1>1
<1>3. InWindow(InWindow(m.trades, t, WindowMs), u, WindowMs) = InWindow(m.trades, u, WindowMs)
  BY <1>1, <1>2, ItemTypes, WindowOfWindow
<1>4. InWindow(InWindow(m.midSnapshots, t, WindowMs), u, WindowMs) = InWindow(m.midSnapshots, u, WindowMs)
  BY <1>1, <1>2, ItemTypes, WindowOfWindow
<1>5. QED
  BY <1>3, <1>4, PruneFacts DEF SameMarket

(* What two markets show at t they show later. *)
LEMMA SameLater ==
  ASSUME NEW m \in MarketState, NEW c \in MarketState, NEW t \in Int, NEW u \in Int, t <= u,
         SameMarket(m, c, t)
  PROVE  SameMarket(m, c, u)
<1>1. /\ m.trades \in Seq(MarketTrade) /\ m.midSnapshots \in Seq(MidSnapshot) /\ WindowMs \in Int
      /\ c.trades \in Seq(MarketTrade) /\ c.midSnapshots \in Seq(MidSnapshot)
  BY ConstantTypes DEF MarketState
<1>2. t - WindowMs <= u - WindowMs
  BY <1>1
<1>3. /\ InWindow(InWindow(m.trades, t, WindowMs), u, WindowMs) = InWindow(m.trades, u, WindowMs)
      /\ InWindow(InWindow(c.trades, t, WindowMs), u, WindowMs) = InWindow(c.trades, u, WindowMs)
  BY <1>1, <1>2, ItemTypes, WindowOfWindow
<1>4. InWindow(InWindow(m.midSnapshots, t, WindowMs), u, WindowMs) = InWindow(m.midSnapshots, u, WindowMs)
  BY <1>1, <1>2, ItemTypes, WindowOfWindow
<1>5. InWindow(InWindow(c.midSnapshots, t, WindowMs), u, WindowMs) = InWindow(c.midSnapshots, u, WindowMs)
  BY <1>1, <1>2, ItemTypes, WindowOfWindow
<1>6. QED
  BY <1>3, <1>4, <1>5 DEF SameMarket

(* What is the same gives the same features. *)
LEMMA SameFeatures ==
  ASSUME NEW m \in MarketState, NEW c \in MarketState, NEW t \in Int, SameMarket(m, c, t)
  PROVE  /\ HasValidData(m) <=> HasValidData(c)
         /\ FeaturesAt(m, t, Params) = FeaturesAt(c, t, Params)
<1>1. m.trades \in Seq(MarketTrade) /\ c.trades \in Seq(MarketTrade) /\ WindowMs \in Int /\ SecondMs \in Int
  BY ConstantTypes DEF MarketState
<1>2. t - WindowMs <= t - SecondMs
  BY ConstantTypes
<1>3. /\ InWindow(InWindow(m.trades, t, WindowMs), t, SecondMs) = InWindow(m.trades, t, SecondMs)
      /\ InWindow(InWindow(c.trades, t, WindowMs), t, SecondMs) = InWindow(c.trades, t, SecondMs)
  BY <1>1, <1>2, ItemTypes, WindowOfWindow
<1>4. InWindow(m.trades, t, SecondMs) = InWindow(c.trades, t, SecondMs)
  BY <1>3 DEF SameMarket
<1>5. QED
  BY <1>4 DEF SameMarket, HasValidData, FeaturesAt

-----------------------------------------------------------------------------
(* Rows                                                                    *)

(* The items a row adds to the windows. *)
MidOf(row) == [ts |-> row.ts, midPx |-> CalculateMid(row.bid, row.ask)]
TradeOf(row) == [ts |-> row.ts, px |-> row.px, side |-> row.side, type |-> row.type]

(* A row the replay comes to next: its time, its table, and that it is not *)
(* crossed.                                                                *)
LEMMA RowTypes ==
  ASSUME NEW row \in NextRows, lastRow.ts \in Int
  PROVE  /\ row.ts \in StartMs .. EndMs /\ row.ts \in Int /\ row.ts > 0
         /\ row.ts >= lastRow.ts
         /\ tickMs > StartMs => row.ts > tickMs - TickIntervalMs
         /\ row \in BboRow \cup TradeRow \cup PriceRow
         /\ row.kind = "bbo" => row.bid < row.ask
<1>1. PICK r \in Rows, ts \in StartMs .. EndMs : row = [r EXCEPT !.ts = ts]
  BY DEF NextRows
<1>2. r \in BboRow \cup TradeRow \cup PriceRow /\ ts \in Int /\ ts > 0
  BY BacktestAssumption
<1>3. Follows(row, lastRow) /\ (tickMs > StartMs => row.ts > tickMs - TickIntervalMs)
  BY DEF NextRows
<1>4. CASE r \in BboRow
  <2>1. row \in BboRow /\ row.ts = ts /\ row.bid = r.bid /\ row.ask = r.ask /\ r.kind = "bbo"
    BY <1>1, <1>2, <1>4 DEF BboRow
  <2>2. r.bid < r.ask
    BY <2>1, UncrossedRows
  <2>3. QED
    BY <1>1, <1>2, <1>3, <2>1, <2>2 DEF Follows
<1>5. CASE r \in TradeRow
  <2>1. row \in TradeRow /\ row.ts = ts /\ row.kind = "trade"
    BY <1>1, <1>2, <1>5 DEF TradeRow
  <2>2. QED
    BY <1>1, <1>2, <1>3, <2>1 DEF Follows
<1>6. CASE r \in PriceRow
  <2>1. row \in PriceRow /\ row.ts = ts /\ row.kind = "price"
    BY <1>1, <1>2, <1>6 DEF PriceRow
  <2>2. QED
    BY <1>1, <1>2, <1>3, <2>1 DEF Follows
<1>7. QED
  BY <1>2, <1>4, <1>5, <1>6

(* updateBbo, field by field. *)
LEMMA UpdateBboFacts ==
  ASSUME NEW m \in MarketState, NEW row \in BboRow
  PROVE  /\ MidOf(row) \in MidSnapshot
         /\ UpdateBbo(m, row) \in MarketState
         /\ UpdateBbo(m, row) =
              [bestBidPx |-> row.bid, bestAskPx |-> row.ask, markPx |-> m.markPx, indexPx |-> m.indexPx,
               lastUpdateMs |-> row.ts, trades |-> m.trades,
               midSnapshots |-> Append(m.midSnapshots, MidOf(row))]
<1> DEFINE T == Seq(MarketTrade)
           M == Seq(MidSnapshot)
           mids == Append(m.midSnapshots, MidOf(row))
<1>1. m \in [bestBidPx : Nat, bestAskPx : Nat, markPx : OptInt, indexPx : OptInt, lastUpdateMs : Int,
             trades : T, midSnapshots : M]
  BY DEF MarketState
<1>2. row.ts \in Int /\ row.bid \in Nat \ {0} /\ row.ask \in Nat \ {0}
  BY DEF BboRow
<1>3. MidOf(row) \in MidSnapshot
  <2>1. CalculateMid(row.bid, row.ask) \in Nat \ {0}
    BY <1>2, MidType
  <2>2. QED
    BY <1>2, <2>1 DEF MidOf, MidSnapshot
<1>4. mids \in M
  <2>1. m.midSnapshots \in Seq(MidSnapshot)
    BY <1>1
  <2>2. QED
    BY <1>3, <2>1, AppendFacts
<1>5. UpdateBbo(m, row) = [m EXCEPT !.bestBidPx = row.bid, !.bestAskPx = row.ask, !.lastUpdateMs = row.ts,
                                    !.midSnapshots = mids]
  <2> HIDE DEF T, M
  <2>1. QED
    BY <1>1 DEF UpdateBbo, MidOf
<1> HIDE DEF T, M, mids
<1>6. UpdateBbo(m, row) =
        [bestBidPx |-> row.bid, bestAskPx |-> row.ask, markPx |-> m.markPx, indexPx |-> m.indexPx,
         lastUpdateMs |-> row.ts, trades |-> m.trades, midSnapshots |-> mids]
  BY <1>1, <1>5
<1>7. UpdateBbo(m, row) \in MarketState
  BY <1>1, <1>2, <1>4, <1>6 DEF MarketState, T, M
<1>8. QED
  BY <1>3, <1>6, <1>7 DEF mids

(* addTrade, field by field. *)
LEMMA AddTradeFacts ==
  ASSUME NEW m \in MarketState, NEW row \in TradeRow
  PROVE  /\ TradeOf(row) \in MarketTrade
         /\ AddTrade(m, row) \in MarketState
         /\ AddTrade(m, row) =
              [bestBidPx |-> m.bestBidPx, bestAskPx |-> m.bestAskPx, markPx |-> m.markPx,
               indexPx |-> m.indexPx, lastUpdateMs |-> m.lastUpdateMs,
               trades |-> Append(m.trades, TradeOf(row)), midSnapshots |-> m.midSnapshots]
<1> DEFINE T == Seq(MarketTrade)
           M == Seq(MidSnapshot)
           trades == Append(m.trades, TradeOf(row))
<1>1. m \in [bestBidPx : Nat, bestAskPx : Nat, markPx : OptInt, indexPx : OptInt, lastUpdateMs : Int,
             trades : T, midSnapshots : M]
  BY DEF MarketState
<1>2. TradeOf(row) \in MarketTrade
  BY DEF TradeOf, TradeRow, MarketTrade
<1>3. trades \in T
  <2>1. m.trades \in Seq(MarketTrade)
    BY <1>1
  <2>2. QED
    BY <1>2, <2>1, AppendFacts
<1>4. AddTrade(m, row) = [m EXCEPT !.trades = trades]
  <2> HIDE DEF T, M
  <2>1. QED
    BY <1>1 DEF AddTrade, TradeOf
<1> HIDE DEF T, M, trades
<1>5. AddTrade(m, row) =
        [bestBidPx |-> m.bestBidPx, bestAskPx |-> m.bestAskPx, markPx |-> m.markPx, indexPx |-> m.indexPx,
         lastUpdateMs |-> m.lastUpdateMs, trades |-> trades, midSnapshots |-> m.midSnapshots]
  BY <1>1, <1>4
<1>6. AddTrade(m, row) \in MarketState
  BY <1>1, <1>3, <1>5 DEF MarketState, T, M
<1>7. QED
  BY <1>2, <1>5, <1>6 DEF trades

(* A price that a row of md_price may carry. *)
Known(old, new) == IF new = Undefined THEN old ELSE new

(* updatePrice, field by field. *)
LEMMA UpdatePriceFacts ==
  ASSUME NEW m \in MarketState, NEW row \in PriceRow
  PROVE  /\ UpdatePrice(m, row) \in MarketState
         /\ UpdatePrice(m, row) =
              [bestBidPx |-> m.bestBidPx, bestAskPx |-> m.bestAskPx,
               markPx |-> Known(m.markPx, row.markPx), indexPx |-> Known(m.indexPx, row.indexPx),
               lastUpdateMs |-> Later(m.lastUpdateMs, row.ts), trades |-> m.trades,
               midSnapshots |-> m.midSnapshots]
<1> DEFINE T == Seq(MarketTrade)
           M == Seq(MidSnapshot)
           mark == Known(m.markPx, row.markPx)
           index == Known(m.indexPx, row.indexPx)
           last == Later(m.lastUpdateMs, row.ts)
<1>1. m \in [bestBidPx : Nat, bestAskPx : Nat, markPx : OptInt, indexPx : OptInt, lastUpdateMs : Int,
             trades : T, midSnapshots : M]
  BY DEF MarketState
<1> HIDE DEF T, M
<1>2. mark \in OptInt /\ index \in OptInt /\ last \in Int
  BY <1>1 DEF PriceRow, Known, Later
<1>3. UpdatePrice(m, row) = [m EXCEPT !.markPx = mark, !.indexPx = index, !.lastUpdateMs = last]
  BY <1>1 DEF UpdatePrice, Known
<1> HIDE DEF mark, index, last
<1>4. UpdatePrice(m, row) =
        [bestBidPx |-> m.bestBidPx, bestAskPx |-> m.bestAskPx, markPx |-> mark, indexPx |-> index,
         lastUpdateMs |-> last, trades |-> m.trades, midSnapshots |-> m.midSnapshots]
  BY <1>1, <1>3
<1>5. UpdatePrice(m, row) \in MarketState
  BY <1>1, <1>2, <1>4 DEF MarketState, T, M
<1>6. QED
  BY <1>4, <1>5 DEF mark, index, last

-----------------------------------------------------------------------------
(* The same rows for both markets                                          *)

(* What a row makes of the backtest's market. *)
LEMMA ProcessFacts ==
  ASSUME NEW m \in MarketState, NEW row \in BboRow \cup TradeRow \cup PriceRow, row.ts > 0
  PROVE  /\ ProcessEvent(m, row) \in MarketState
         /\ HasValidData(m) => HasValidData(ProcessEvent(m, row))
         /\ \/ ProcessEvent(m, row).trades = m.trades
            \/ /\ TradeOf(row) \in MarketTrade
               /\ ProcessEvent(m, row).trades = Append(m.trades, TradeOf(row))
<1>0. m.lastUpdateMs \in Int
  BY DEF MarketState
<1>1. CASE row \in BboRow
  <2> DEFINE r == UpdateBbo(m, row)
  <2>1. row.kind = "bbo" /\ row.bid > 0 /\ row.ask > 0
    BY <1>1 DEF BboRow
  <2>2. ProcessEvent(m, row) = r
    BY <2>1 DEF ProcessEvent
  <2>3. r \in MarketState /\ r.bestBidPx = row.bid /\ r.bestAskPx = row.ask /\ r.lastUpdateMs = row.ts
        /\ r.trades = m.trades
    BY <1>1, UpdateBboFacts
  <2> HIDE DEF r
  <2>4. QED
    BY <2>1, <2>2, <2>3 DEF HasValidData
<1>2. CASE row \in TradeRow
  <2> DEFINE r == AddTrade(m, row)
  <2>1. row.kind = "trade"
    BY <1>2 DEF TradeRow
  <2>2. ProcessEvent(m, row) = r
    BY <2>1 DEF ProcessEvent
  <2>3. /\ r \in MarketState /\ r.bestBidPx = m.bestBidPx /\ r.bestAskPx = m.bestAskPx
        /\ r.lastUpdateMs = m.lastUpdateMs
        /\ TradeOf(row) \in MarketTrade /\ r.trades = Append(m.trades, TradeOf(row))
    BY <1>2, AddTradeFacts
  <2> HIDE DEF r
  <2>4. QED
    BY <2>2, <2>3 DEF HasValidData
<1>3. CASE row \in PriceRow
  <2> DEFINE r == UpdatePrice(m, row)
  <2>1. row.kind = "price" /\ row.ts \in Int
    BY <1>3 DEF PriceRow
  <2>2. ProcessEvent(m, row) = r
    BY <2>1 DEF ProcessEvent
  <2>3. /\ r \in MarketState /\ r.bestBidPx = m.bestBidPx /\ r.bestAskPx = m.bestAskPx
        /\ r.lastUpdateMs = Later(m.lastUpdateMs, row.ts) /\ r.trades = m.trades
    BY <1>3, UpdatePriceFacts
  <2> HIDE DEF r
  <2>4. QED
    BY <1>0, <2>1, <2>2, <2>3 DEF HasValidData, Later
<1>4. QED
  BY <1>1, <1>2, <1>3

(* Two markets that show the same as a third one show the same. *)
LEMMA SameChain ==
  ASSUME NEW a, NEW b, NEW c, NEW t, SameMarket(a, b, t), SameMarket(c, b, t)
  PROVE  SameMarket(a, c, t)
BY DEF SameMarket

(* Equal windows stay equal when both sequences grow by the same item. *)
LEMMA SameAppend ==
  ASSUME NEW V, NEW a \in Seq(V), NEW b \in Seq(V), NEW x \in V, NEW t \in Int, NEW w \in Int,
         InWindow(a, t, w) = InWindow(b, t, w)
  PROVE  InWindow(Append(a, x), t, w) = InWindow(Append(b, x), t, w)
<1>1. InWindow(Append(a, x), t, w) =
        IF x.ts >= t - w THEN Append(InWindow(a, t, w), x) ELSE InWindow(a, t, w)
  BY WindowAppend
<1>2. InWindow(Append(b, x), t, w) =
        IF x.ts >= t - w THEN Append(InWindow(b, t, w), x) ELSE InWindow(b, t, w)
  BY WindowAppend
<1>3. QED
  BY <1>1, <1>2

(* A row that is not newer than t leaves the two markets the same at t.     *)
LEMMA SameProcess ==
  ASSUME NEW m \in MarketState, NEW c \in MarketState, NEW t \in Int,
         NEW row \in BboRow \cup TradeRow \cup PriceRow, row.ts <= t,
         row.kind = "bbo" => row.bid < row.ask,
         SameMarket(m, c, t)
  PROVE  /\ CacheEvent(c, row) \in MarketState
         /\ SameMarket(ProcessEvent(m, row), CacheEvent(c, row), t)
<1>0. /\ m.trades \in Seq(MarketTrade) /\ m.midSnapshots \in Seq(MidSnapshot)
      /\ c.trades \in Seq(MarketTrade) /\ c.midSnapshots \in Seq(MidSnapshot)
      /\ WindowMs \in Int
  BY ConstantTypes DEF MarketState
<1>1. CASE row \in BboRow
  <2> DEFINE p == UpdateBbo(m, row)
             q == UpdateBbo(c, row)
             x == MidOf(row)
  <2>1. row.kind = "bbo" /\ row.bid \in Int /\ row.ask \in Int /\ row.ts \in Int
    BY <1>1 DEF BboRow
  <2>2. ProcessEvent(m, row) = p
    BY <2>1 DEF ProcessEvent
  <2>3. CacheEvent(c, row) = Prune(q, row.ts)
    BY <2>1 DEF CacheEvent, CacheBbo
  <2>4. /\ q \in MarketState /\ x \in MidSnapshot
        /\ p = [bestBidPx |-> row.bid, bestAskPx |-> row.ask, markPx |-> m.markPx, indexPx |-> m.indexPx,
                lastUpdateMs |-> row.ts, trades |-> m.trades, midSnapshots |-> Append(m.midSnapshots, x)]
        /\ q = [bestBidPx |-> row.bid, bestAskPx |-> row.ask, markPx |-> c.markPx, indexPx |-> c.indexPx,
                lastUpdateMs |-> row.ts, trades |-> c.trades, midSnapshots |-> Append(c.midSnapshots, x)]
    BY <1>1, UpdateBboFacts
  <2> HIDE DEF p, q, x
  <2>5. InWindow(Append(m.midSnapshots, x), t, WindowMs) = InWindow(Append(c.midSnapshots, x), t, WindowMs)
    <3>1. InWindow(m.midSnapshots, t, WindowMs) = InWindow(c.midSnapshots, t, WindowMs)
      BY DEF SameMarket
    <3> DEFINE a == m.midSnapshots
               b == c.midSnapshots
    <3>2. a \in Seq(MidSnapshot) /\ b \in Seq(MidSnapshot) /\ x \in MidSnapshot
      BY <1>0, <2>4
    <3> HIDE DEF a, b
    <3>3. InWindow(a, t, WindowMs) = InWindow(b, t, WindowMs)
      BY <3>1 DEF a, b
    <3>4. InWindow(Append(a, x), t, WindowMs) = InWindow(Append(b, x), t, WindowMs)
      BY <1>0, <3>2, <3>3, SameAppend
    <3>5. QED
      BY <3>4 DEF a, b
  <2>6. SameMarket(p, q, t)
    BY <2>4, <2>5 DEF SameMarket
  <2>7. SameMarket(Prune(q, row.ts), q, t) /\ Prune(q, row.ts) \in MarketState
    BY <2>1, <2>4, PruneUnseen, PruneFacts
  <2>8. QED
    BY <2>2, <2>3, <2>6, <2>7, SameChain
<1>2. CASE row \in TradeRow
  <2> DEFINE p == AddTrade(m, row)
             q == AddTrade(c, row)
             x == TradeOf(row)
  <2>1. row.kind = "trade" /\ row.ts \in Int
    BY <1>2 DEF TradeRow
  <2>2. ProcessEvent(m, row) = p
    BY <2>1 DEF ProcessEvent
  <2>3. CacheEvent(c, row) = Prune(q, row.ts)
    BY <2>1 DEF CacheEvent, CacheTrade
  <2>4. /\ q \in MarketState /\ x \in MarketTrade
        /\ p = [bestBidPx |-> m.bestBidPx, bestAskPx |-> m.bestAskPx, markPx |-> m.markPx,
                indexPx |-> m.indexPx, lastUpdateMs |-> m.lastUpdateMs,
                trades |-> Append(m.trades, x), midSnapshots |-> m.midSnapshots]
        /\ q = [bestBidPx |-> c.bestBidPx, bestAskPx |-> c.bestAskPx, markPx |-> c.markPx,
                indexPx |-> c.indexPx, lastUpdateMs |-> c.lastUpdateMs,
                trades |-> Append(c.trades, x), midSnapshots |-> c.midSnapshots]
    BY <1>2, AddTradeFacts
  <2> HIDE DEF p, q, x
  <2>5. InWindow(Append(m.trades, x), t, WindowMs) = InWindow(Append(c.trades, x), t, WindowMs)
    <3>1. InWindow(m.trades, t, WindowMs) = InWindow(c.trades, t, WindowMs)
      BY DEF SameMarket
    <3> DEFINE a == m.trades
               b == c.trades
    <3>2. a \in Seq(MarketTrade) /\ b \in Seq(MarketTrade) /\ x \in MarketTrade
      BY <1>0, <2>4
    <3> HIDE DEF a, b
    <3>3. InWindow(a, t, WindowMs) = InWindow(b, t, WindowMs)
      BY <3>1 DEF a, b
    <3>4. InWindow(Append(a, x), t, WindowMs) = InWindow(Append(b, x), t, WindowMs)
      BY <1>0, <3>2, <3>3, SameAppend
    <3>5. QED
      BY <3>4 DEF a, b
  <2>6. SameMarket(p, q, t)
    BY <2>4, <2>5 DEF SameMarket
  <2>7. SameMarket(Prune(q, row.ts), q, t) /\ Prune(q, row.ts) \in MarketState
    BY <2>1, <2>4, PruneUnseen, PruneFacts
  <2>8. QED
    BY <2>2, <2>3, <2>6, <2>7, SameChain
<1>3. CASE row \in PriceRow
  <2> DEFINE p == UpdatePrice(m, row)
             q == UpdatePrice(c, row)
  <2>1. row.kind = "price"
    BY <1>3 DEF PriceRow
  <2>2. ProcessEvent(m, row) = p /\ CacheEvent(c, row) = q
    BY <2>1 DEF ProcessEvent, CacheEvent, CachePrice
  <2>3. /\ q \in MarketState
        /\ p = [bestBidPx |-> m.bestBidPx, bestAskPx |-> m.bestAskPx,
                markPx |-> Known(m.markPx, row.markPx), indexPx |-> Known(m.indexPx, row.indexPx),
                lastUpdateMs |-> Later(m.lastUpdateMs, row.ts), trades |-> m.trades,
                midSnapshots |-> m.midSnapshots]
        /\ q = [bestBidPx |-> c.bestBidPx, bestAskPx |-> c.bestAskPx,
                markPx |-> Known(c.markPx, row.markPx), indexPx |-> Known(c.indexPx, row.indexPx),
                lastUpdateMs |-> Later(c.lastUpdateMs, row.ts), trades |-> c.trades,
                midSnapshots |-> c.midSnapshots]
    BY <1>3, UpdatePriceFacts
  <2> HIDE DEF p, q
  <2>4. SameMarket(p, q, t)
    BY <2>3 DEF SameMarket
  <2>5. QED
    BY <2>2, <2>3, <2>4
<1>4. QED
  BY <1>1, <1>2, <1>3

-----------------------------------------------------------------------------
(* Placing and cancelling                                                  *)

Balanced(s) == s.orderIdCounter = Len(s.fills) + s.cancelCount + Rests(s, "buy") + Rests(s, "sell")

PlacedNow(order) == order \in SimOrder /\ order.createdAtMs = tickMs

(* What placing and cancelling may do. *)
Settled(s, r) ==
  /\ r \in Sim
  /\ r.fills = s.fills /\ r.position = s.position
  /\ Balanced(s) => Balanced(r)
  /\ \A d \in Sides : r.orders[d] = s.orders[d] \/ r.orders[d] = Undefined \/ PlacedNow(r.orders[d])

(* A side has at most one order. *)
LEMMA RestsType == ASSUME NEW s, NEW side PROVE Rests(s, side) \in 0 .. 1
BY DEF Rests

(* The number of orders that rest, counted by side. *)
LEMMA RestingCount ==
  ASSUME NEW s
  PROVE  Cardinality({side \in Sides : s.orders[side] # Undefined}) = Rests(s, "buy") + Rests(s, "sell")
<1> DEFINE R == {side \in Sides : s.orders[side] # Undefined}
           b == s.orders["buy"] # Undefined
           a == s.orders["sell"] # Undefined
<1>1. Sides = {"buy", "sell"} /\ "buy" # "sell"
  BY DEF Sides
<1>2. CASE b /\ a
  <2>1. R = {"buy"} \cup {"sell"}
    BY <1>1, <1>2
  <2>2. IsFiniteSet({"buy"}) /\ Cardinality({"buy"}) = 1
    BY FS_Singleton
  <2>3. Cardinality({"buy"} \cup {"sell"}) = 2
    BY <1>1, <2>2, FS_AddElement
  <2>4. QED
    BY <1>2, <2>1, <2>3 DEF Rests
<1>3. CASE b /\ ~a
  <2>1. R = {"buy"}
    BY <1>1, <1>3
  <2>2. QED
    BY <1>3, <2>1, FS_Singleton DEF Rests
<1>4. CASE ~b /\ a
  <2>1. R = {"sell"}
    BY <1>1, <1>4
  <2>2. QED
    BY <1>4, <2>1, FS_Singleton DEF Rests
<1>5. CASE ~b /\ ~a
  <2>1. R = {}
    BY <1>1, <1>5
  <2>2. QED
    BY <1>5, <2>1, FS_EmptySet DEF Rests
<1>6. QED
  BY <1>2, <1>3, <1>4, <1>5

(* The fields of a simulation, one by one. *)
LEMMA SimTypes ==
  ASSUME NEW s \in Sim
  PROVE  /\ s.orders \in [Sides -> SimOrder \cup {Undefined}]
         /\ s.position \in Int /\ s.fills \in Seq(Fill) /\ Len(s.fills) \in Nat
         /\ s.cancelCount \in Nat /\ s.orderIdCounter \in Nat /\ s.pauseTransitions \in Nat
         /\ s.lastMode \in Mode
<1>1. s.fills \in Seq(Fill)
  BY DEF Sim
<1>2. Len(s.fills) \in Nat
  BY <1>1, LenProperties
<1>3. QED
  BY <1>1, <1>2 DEF Sim

(* Placing an order counts it, and the one it replaces as cancelled. *)
LEMMA PlaceSettles ==
  ASSUME NEW s \in Sim, NEW side \in Sides, NEW price \in Int, NEW size \in Nat, tickMs \in Int
  PROVE  Settled(s, Place(s, side, price, size))
<1> DEFINE order == [price |-> price, size |-> size, createdAtMs |-> tickMs]
           orders == [s.orders EXCEPT ![side] = order]
           cancels == IF s.orders[side] = Undefined THEN s.cancelCount ELSE s.cancelCount + 1
           F == Seq(Fill)
           r == Place(s, side, price, size)
<1>1. /\ s.orders \in [Sides -> SimOrder \cup {Undefined}]
      /\ s.position \in Int /\ s.fills \in F /\ Len(s.fills) \in Nat
      /\ s.cancelCount \in Nat /\ s.orderIdCounter \in Nat /\ s.pauseTransitions \in Nat
      /\ s.lastMode \in Mode
  BY SimTypes
<1>2. PlacedNow(order) /\ order # Undefined /\ order \in SimOrder
  BY BacktestAssumption DEF PlacedNow, SimOrder
<1>3. r = [orders |-> orders, position |-> s.position, fills |-> s.fills, cancelCount |-> cancels,
           orderIdCounter |-> s.orderIdCounter + 1, pauseTransitions |-> s.pauseTransitions,
           lastMode |-> s.lastMode]
  <2> DEFINE O == [Sides -> SimOrder \cup {Undefined}]
  <2>1. s \in [orders : O, position : Int, fills : F, cancelCount : Nat, orderIdCounter : Nat,
              pauseTransitions : Nat, lastMode : Mode]
    BY DEF Sim
  <2> HIDE DEF O, F
  <2>2. r = [s EXCEPT !.orders = orders, !.orderIdCounter = s.orderIdCounter + 1, !.cancelCount = cancels]
    <3> HIDE DEF order
    <3>1. QED
      BY <2>1 DEF Place, order
  <2> HIDE DEF orders, r, cancels
  <2>3. QED
    BY <2>1, <2>2
<1> HIDE DEF order, F
<1>4. orders \in [Sides -> SimOrder \cup {Undefined}] /\ orders[side] = order
      /\ \A d \in Sides \ {side} : orders[d] = s.orders[d]
  BY <1>1, <1>2
<1>5. cancels \in Nat
  BY <1>1
<1>6. \A d \in Sides : orders[d] = s.orders[d] \/ PlacedNow(orders[d])
  BY <1>2, <1>4
<1>7. Balanced(s) => Balanced(r)
  <2>1. Rests(r, side) = 1 /\ \A d \in Sides \ {side} : Rests(r, d) = Rests(s, d)
    <3> HIDE DEF orders, r, cancels
    <3>1. r.orders = orders
      BY <1>3
    <3>2. QED
      BY <1>2, <1>4, <3>1 DEF Rests
  <2>2. cancels = s.cancelCount + Rests(s, side)
    BY <1>1 DEF Rests
  <2>3. r.fills = s.fills /\ r.cancelCount = cancels /\ r.orderIdCounter = s.orderIdCounter + 1
    <3> HIDE DEF orders, r, cancels
    <3>1. QED
      BY <1>3
  <2>4. Sides = {"buy", "sell"} /\ "buy" # "sell"
    BY DEF Sides
  <2> HIDE DEF orders, r, cancels
  <2> DEFINE L == Len(s.fills)
             c == s.cancelCount
             o == s.orderIdCounter
             b == Rests(s, "buy")
             a == Rests(s, "sell")
  <2>5. L \in Int /\ c \in Int /\ o \in Int /\ b \in Int /\ a \in Int
    BY <1>1, RestsType
  <2>6. Balanced(s) <=> o = L + c + b + a
    BY DEF Balanced
  <2>7. CASE side = "buy"
    <3>1. Rests(r, "buy") = 1 /\ Rests(r, "sell") = a /\ cancels = c + b
      BY <2>1, <2>2, <2>4, <2>7
    <3>2. Balanced(r) <=> o + 1 = L + (c + b) + 1 + a
      BY <2>3, <3>1 DEF Balanced
    <3> HIDE DEF L, c, o, b, a
    <3>3. QED
      BY <2>5, <2>6, <3>2
  <2>8. CASE side = "sell"
    <3>1. Rests(r, "sell") = 1 /\ Rests(r, "buy") = b /\ cancels = c + a
      BY <2>1, <2>2, <2>4, <2>8
    <3>2. Balanced(r) <=> o + 1 = L + (c + a) + b + 1
      BY <2>3, <3>1 DEF Balanced
    <3> HIDE DEF L, c, o, b, a
    <3>3. QED
      BY <2>5, <2>6, <3>2
  <2>9. QED
    BY <2>4, <2>7, <2>8
<1> HIDE DEF orders, cancels, r
<1>8. r \in Sim
  BY <1>1, <1>3, <1>4, <1>5 DEF Sim, F
<1>9. r.fills = s.fills /\ r.position = s.position /\ r.orders = orders
  BY <1>3
<1>10. QED
  BY <1>6, <1>7, <1>8, <1>9 DEF Settled, r

(* Cancelling all orders counts each of them and leaves none. *)
LEMMA CancelSettles ==
  ASSUME NEW s \in Sim
  PROVE  Settled(s, CancelAll(s)) /\ \A d \in Sides : CancelAll(s).orders[d] = Undefined
<1> DEFINE orders == [side \in Sides |-> Undefined]
           cancels == s.cancelCount + Cardinality({side \in Sides : s.orders[side] # Undefined})
           F == Seq(Fill)
           r == CancelAll(s)
<1>1. /\ s.orders \in [Sides -> SimOrder \cup {Undefined}]
      /\ s.position \in Int /\ s.fills \in F /\ Len(s.fills) \in Nat
      /\ s.cancelCount \in Nat /\ s.orderIdCounter \in Nat /\ s.pauseTransitions \in Nat
      /\ s.lastMode \in Mode
  BY SimTypes
<1>2. r = [orders |-> orders, position |-> s.position, fills |-> s.fills, cancelCount |-> cancels,
           orderIdCounter |-> s.orderIdCounter, pauseTransitions |-> s.pauseTransitions,
           lastMode |-> s.lastMode]
  <2> DEFINE O == [Sides -> SimOrder \cup {Undefined}]
  <2>1. s \in [orders : O, position : Int, fills : F, cancelCount : Nat, orderIdCounter : Nat,
              pauseTransitions : Nat, lastMode : Mode]
    BY DEF Sim
  <2> HIDE DEF O, F, cancels
  <2>2. r = [s EXCEPT !.orders = orders, !.cancelCount = cancels]
    <3>1. QED
      BY <2>1 DEF CancelAll, NewSim, cancels
  <2> HIDE DEF orders, r
  <2>3. QED
    BY <2>1, <2>2
<1>3. cancels = s.cancelCount + Rests(s, "buy") + Rests(s, "sell")
  <2>1. Rests(s, "buy") \in Int /\ Rests(s, "sell") \in Int
    BY RestsType
  <2>2. QED
    BY <1>1, <2>1, RestingCount
<1> HIDE DEF cancels, F, r
<1>4. cancels \in Nat
  <2>1. Rests(s, "buy") \in Nat /\ Rests(s, "sell") \in Nat
    BY RestsType
  <2>2. QED
    BY <1>1, <1>3, <2>1
<1>5. orders \in [Sides -> SimOrder \cup {Undefined}] /\ \A d \in Sides : orders[d] = Undefined
  OBVIOUS
<1> HIDE DEF orders
<1>6. /\ r.fills = s.fills /\ r.position = s.position /\ r.orders = orders
      /\ r.cancelCount = cancels /\ r.orderIdCounter = s.orderIdCounter
  BY <1>2
<1>7. r \in Sim
  BY <1>1, <1>2, <1>4, <1>5 DEF Sim, F
<1>8. Rests(r, "buy") = 0 /\ Rests(r, "sell") = 0
  BY <1>5, <1>6 DEF Rests, Sides
<1>9. Balanced(s) => Balanced(r)
  <2>1. Rests(s, "buy") \in Int /\ Rests(s, "sell") \in Int
    BY RestsType
  <2>2. QED
    BY <1>1, <1>3, <1>6, <1>8, <2>1 DEF Balanced
<1>10. QED
  BY <1>5, <1>6, <1>7, <1>9 DEF Settled, r

(* Leaving the orders alone settles them. *)
LEMMA SettledAlready == ASSUME NEW s \in Sim PROVE Settled(s, s)
BY DEF Settled

(* What settles step by step settles. *)
LEMMA SettledChain ==
  ASSUME NEW s, NEW r, NEW q, Settled(s, r), Settled(r, q)
  PROVE  Settled(s, q)
BY DEF Settled

(* What a decision is carried out with: the fills and the position stay,    *)
(* the orders are kept, placed now or cancelled.                           *)
LEMMA CarryFacts ==
  ASSUME NEW intent2, NEW s \in Sim, NEW f \in FeatureRecord, tickMs \in Int
  PROVE  /\ Settled(s, Carry(intent2, s, f))
         /\ intent2 = "CANCEL_ALL" => \A d \in Sides : Carry(intent2, s, f).orders[d] = Undefined
<1> DEFINE quote == GenerateQuoteIntent(Params, f, s.position)
           Bid(x) == IF PlacesSide(x.orders["buy"], quote.bidPx, f.midPx)
                     THEN Place(x, "buy", quote.bidPx, quote.size) ELSE x
           Ask(x) == IF PlacesSide(x.orders["sell"], quote.askPx, f.midPx)
                     THEN Place(x, "sell", quote.askPx, quote.size) ELSE x
<1>1. Carry(intent2, s, f) = IF intent2 = "CANCEL_ALL" THEN CancelAll(s) ELSE Ask(Bid(s))
  BY DEF Carry
<1>2. quote.bidPx \in Int /\ quote.askPx \in Int /\ quote.size \in Nat
  <2>1. s.position \in Int
    BY SimTypes
  <2>2. QED
    BY <2>1, QuoteType
<1>3. "buy" \in Sides /\ "sell" \in Sides
  BY DEF Sides
<1> HIDE DEF quote
<1>4. Settled(s, Bid(s))
  <2>1. Settled(s, Place(s, "buy", quote.bidPx, quote.size))
    BY <1>2, <1>3, PlaceSettles
  <2>2. QED
    BY <2>1, SettledAlready
<1>5. ASSUME NEW x \in Sim PROVE Settled(x, Ask(x))
  <2>1. Settled(x, Place(x, "sell", quote.askPx, quote.size))
    BY <1>2, <1>3, PlaceSettles
  <2>2. QED
    BY <2>1, SettledAlready
<1> HIDE DEF Bid, Ask
<1>6. Bid(s) \in Sim
  BY <1>4 DEF Settled
<1>7. Settled(s, Ask(Bid(s)))
  BY <1>4, <1>5, <1>6, SettledChain
<1>8. CASE intent2 = "CANCEL_ALL"
  BY <1>1, <1>8, CancelSettles
<1>9. CASE intent2 # "CANCEL_ALL"
  BY <1>1, <1>7, <1>9
<1>10. QED
  BY <1>8, <1>9

(* The mode statistics touch neither orders nor totals. *)
LEMMA TrackFacts ==
  ASSUME NEW s \in Sim, NEW mode \in Mode
  PROVE  /\ TrackModeTransition(s, mode) \in Sim
         /\ TrackModeTransition(s, mode).orders = s.orders
         /\ TrackModeTransition(s, mode).fills = s.fills
         /\ TrackModeTransition(s, mode).position = s.position
         /\ TrackModeTransition(s, mode).cancelCount = s.cancelCount
         /\ TrackModeTransition(s, mode).orderIdCounter = s.orderIdCounter
<1> DEFINE F == Seq(Fill)
           O == [Sides -> SimOrder \cup {Undefined}]
           pauses == IF mode = "PAUSE" /\ s.lastMode # "PAUSE" THEN s.pauseTransitions + 1
                     ELSE s.pauseTransitions
           r == TrackModeTransition(s, mode)
<1>1. s \in [orders : O, position : Int, fills : F, cancelCount : Nat, orderIdCounter : Nat,
             pauseTransitions : Nat, lastMode : Mode]
  BY DEF Sim
<1> HIDE DEF F, O
<1>2. pauses \in Nat
  BY <1>1
<1>3. r = [s EXCEPT !.pauseTransitions = pauses, !.lastMode = mode]
  BY <1>1 DEF TrackModeTransition
<1> HIDE DEF pauses, r
<1>4. r \in [orders : O, position : Int, fills : F, cancelCount : Nat, orderIdCounter : Nat,
             pauseTransitions : Nat, lastMode : Mode]
  BY <1>1, <1>2, <1>3
<1>5. /\ r.orders = s.orders /\ r.fills = s.fills /\ r.position = s.position
      /\ r.cancelCount = s.cancelCount /\ r.orderIdCounter = s.orderIdCounter
  BY <1>1, <1>3
<1>6. QED
  BY <1>4, <1>5 DEF Sim, F, O, r

-----------------------------------------------------------------------------
(* What holds of a simulation                                              *)

Sizes(fills) == {0} \cup {fills[i].size : i \in DOMAIN fills}

(* Every fill has a reason. *)
FillsMade(s) ==
  \A i \in DOMAIN s.fills :
    /\ s.fills[i].ts >= s.fills[i].placedAt
    /\ Touches(s.fills[i].side, [px |-> s.fills[i].tradePx], [price |-> s.fills[i].orderPx])

PositionBounded(s) == AbsVal(s.position) <= Params.maxInventory + Max(Sizes(s.fills))

(* No order rests. *)
Idle(s) == \A d \in Sides : s.orders[d] = Undefined

SimOK(s) ==
  /\ Balanced(s)
  /\ s.position = NetFilled(s.fills)
  /\ FillsMade(s)
  /\ PositionBounded(s)

(* A size of a fill is a natural number. *)
LEMMA SizesType ==
  ASSUME NEW fills \in Seq(Fill), NEW y \in Sizes(fills)
  PROVE  y \in Nat
<1>1. ASSUME NEW i \in DOMAIN fills PROVE fills[i].size \in Nat
  <2>1. fills[i] \in Fill
    OBVIOUS
  <2>2. QED
    BY <2>1 DEF Fill
<1>2. QED
  BY <1>1 DEF Sizes

(* There is a largest fill. *)
LEMMA SizesFacts ==
  ASSUME NEW fills \in Seq(Fill)
  PROVE  /\ Max(Sizes(fills)) \in Sizes(fills) /\ Max(Sizes(fills)) \in Nat
         /\ \A y \in Sizes(fills) : y \in Nat /\ y <= Max(Sizes(fills))
<1> DEFINE Top(fs, x) == x \in Sizes(fs) /\ \A y \in Sizes(fs) : x >= y
           Good == {fs \in Seq(Fill) : \E x \in Nat : Top(fs, x)}
<1>1. <<>> \in Good
  <2>1. Sizes(<<>>) = {0} /\ <<>> \in Seq(Fill)
    BY DEF Sizes
  <2>2. Top(<<>>, 0) /\ 0 \in Nat
    BY <2>1
  <2> HIDE DEF Top
  <2>3. QED
    BY <2>1, <2>2
<1>2. ASSUME NEW fs \in Good, NEW f \in Fill PROVE Append(fs, f) \in Good
  <2> DEFINE more == Append(fs, f)
             n == Len(fs)
  <2>0. fs \in Seq(Fill)
    OBVIOUS
  <2>1. PICK x \in Nat : Top(fs, x)
    OBVIOUS
  <2> HIDE DEF Good
  <2>2. /\ more \in Seq(Fill) /\ n \in Nat /\ Len(more) = n + 1 /\ more[n + 1] = f
        /\ \A i \in 1 .. n : more[i] = fs[i]
    BY <2>0, AppendFacts
  <2>3. DOMAIN fs = 1 .. n /\ DOMAIN more = 1 .. n + 1
    <3> HIDE DEF more
    <3>1. QED
      BY <2>0, <2>2, LenProperties
  <2>4. f.size \in Nat
    BY DEF Fill
  <2> HIDE DEF more, n
  <2>5. Sizes(more) = Sizes(fs) \cup {f.size}
    <3>1. ASSUME NEW y \in Sizes(more) PROVE y \in Sizes(fs) \cup {f.size}
      <4>1. CASE y = 0
        BY <4>1 DEF Sizes
      <4>2. CASE y # 0
        <5>1. PICK i \in 1 .. n + 1 : y = more[i].size
          BY <2>3, <4>2 DEF Sizes
        <5>2. i \in 1 .. n \/ i = n + 1
          BY <2>2
        <5>3. QED
          BY <2>2, <2>3, <5>1, <5>2 DEF Sizes
      <4>3. QED
        BY <4>1, <4>2
    <3>2. ASSUME NEW y \in Sizes(fs) PROVE y \in Sizes(more)
      <4>1. CASE y = 0
        BY <4>1 DEF Sizes
      <4>2. CASE y # 0
        <5>1. PICK i \in 1 .. n : y = fs[i].size
          BY <2>3, <4>2 DEF Sizes
        <5>2. i \in 1 .. n + 1
          BY <2>2
        <5>3. QED
          BY <2>2, <2>3, <5>1, <5>2 DEF Sizes
      <4>3. QED
        BY <4>1, <4>2
    <3>3. f.size \in Sizes(more)
      <4>1. n + 1 \in 1 .. n + 1
        BY <2>2
      <4>2. QED
        BY <2>2, <2>3, <4>1 DEF Sizes
    <3>4. QED
      BY <3>1, <3>2, <3>3
  <2>6. \A y \in Sizes(fs) : y \in Nat
    BY <2>0, SizesType
  <2>7. \E z \in Nat : Top(more, z)
    <3>1. CASE f.size >= x
      <4>1. Top(more, f.size)
        BY <2>1, <2>4, <2>5, <2>6, <3>1
      <4>2. QED
        BY <2>4, <4>1
    <3>2. CASE ~(f.size >= x)
      <4>1. Top(more, x)
        BY <2>1, <2>4, <2>5, <2>6, <3>2
      <4>2. QED
        BY <4>1
    <3>3. QED
      BY <3>1, <3>2
  <2>8. QED
    BY <2>2, <2>7 DEF Good, more
<1>3. Good = Seq(Fill)
  <2>1. Good \in SUBSET Seq(Fill)
    OBVIOUS
  <2> HIDE DEF Good
  <2>2. QED
    BY <1>1, <1>2, <2>1, SeqInduction
<1>4. PICK x \in Nat : Top(fills, x)
  BY <1>3
<1>5. Max(Sizes(fills)) \in Sizes(fills) /\ \A y \in Sizes(fills) : Max(Sizes(fills)) >= y
  BY <1>4 DEF Max
<1>6. \A y \in Sizes(fills) : y \in Nat
  BY SizesType
<1> DEFINE top == Max(Sizes(fills))
<1>7. top \in Sizes(fills) /\ top \in Nat /\ \A y \in Sizes(fills) : top >= y /\ y \in Nat
  BY <1>5, <1>6
<1> HIDE DEF top
<1>8. \A y \in Sizes(fills) : y \in Nat /\ y <= top
  BY <1>7
<1>9. QED
  BY <1>7, <1>8 DEF top

(* A position within the limit that moves by at most one order on each     *)
(* side is at most one order beyond it.                                    *)
LEMMA Overshoot ==
  ASSUME NEW p \in Int, NEW g \in Int, NEW h \in Int, NEW q \in Int, NEW limit \in Nat, NEW top \in Nat,
         g >= 0, h >= 0, g <= top, h <= top, q = p + g - h, AbsVal(p) <= limit
  PROVE  AbsVal(q) <= limit + top
BY DEF AbsVal

(* The fills of a tick keep what holds of a simulation. *)
LEMMA CarriedOK ==
  ASSUME NEW s \in Sim, NEW r, NEW T, NEW midPx \in Int, Carried(s, r, T, midPx), SimOK(s),
         AbsVal(s.position) > Params.maxInventory => Idle(s),
         \A d \in Sides : \A u \in T : s.orders[d] # Undefined => u.ts >= s.orders[d].createdAtMs
  PROVE  SimOK(r)
<1>1. r \in Sim /\ Thinner(s, r) /\ FillsOf(s, r, T, midPx) /\ Counts(s, r)
  BY DEF Carried
<1>2. /\ s.position \in Int /\ s.fills \in Seq(Fill) /\ Len(s.fills) \in Nat
      /\ s.cancelCount \in Nat /\ s.orderIdCounter \in Nat
      /\ s.orders \in [Sides -> SimOrder \cup {Undefined}]
  BY SimTypes
<1>3. r.position \in Int /\ r.fills \in Seq(Fill) /\ Len(r.fills) \in Nat
  BY <1>1, SimTypes
<1>4. Balanced(r)
  <2> DEFINE L == Len(s.fills)
             M == Len(r.fills)
             c == s.cancelCount
             o == s.orderIdCounter
             b == Rests(s, "buy")
             a == Rests(s, "sell")
             bb == Rests(r, "buy")
             aa == Rests(r, "sell")
  <2>1. /\ L \in Int /\ M \in Int /\ c \in Int /\ o \in Int
        /\ b \in Int /\ a \in Int /\ bb \in Int /\ aa \in Int
    BY <1>2, <1>3, RestsType
  <2>2. o = L + c + b + a
    BY DEF SimOK, Balanced
  <2>3. M + bb + aa = L + b + a
    BY <1>1 DEF Counts
  <2>4. r.cancelCount = c /\ r.orderIdCounter = o
    BY <1>1 DEF Thinner
  <2>5. Balanced(r) <=> o = M + c + bb + aa
    BY <2>4 DEF Balanced
  <2> HIDE DEF L, M, c, o, b, a, bb, aa
  <2>6. QED
    BY <2>1, <2>2, <2>3, <2>5
<1>5. r.position = NetFilled(r.fills)
  <2>1. NetFilled(s.fills) \in Int /\ NetFilled(r.fills) \in Int
    <3>1. \E f : f \in Fill
      <4> DEFINE f == [ts |-> 0, side |-> "buy", orderPx |-> 0, size |-> 0, midT0 |-> 0,
                       placedAt |-> 0, tradePx |-> 0]
      <4>1. f \in Fill
        BY DEF Fill, Sides
      <4>2. QED
        BY <4>1
    <3>2. QED
      BY <1>2, <1>3, <3>1, NetFilledAppend
  <2>2. s.position = NetFilled(s.fills) /\ r.position - NetFilled(r.fills) = s.position - NetFilled(s.fills)
    BY <1>1 DEF SimOK, Counts
  <2>3. QED
    BY <1>2, <1>3, <2>1, <2>2
<1>6. FillsMade(r)
  <2>1. DOMAIN r.fills = 1 .. Len(r.fills) /\ DOMAIN s.fills = 1 .. Len(s.fills)
    BY <1>2, <1>3, LenProperties
  <2>2. ASSUME NEW i \in 1 .. Len(r.fills)
        PROVE  /\ r.fills[i].ts >= r.fills[i].placedAt
               /\ Touches(r.fills[i].side, [px |-> r.fills[i].tradePx], [price |-> r.fills[i].orderPx])
    <3>1. CASE i \in 1 .. Len(s.fills)
      <4>1. r.fills[i] = s.fills[i]
        BY <1>1, <3>1 DEF FillsOf
      <4>2. QED
        BY <2>1, <3>1, <4>1 DEF SimOK, FillsMade
    <3>2. CASE i \notin 1 .. Len(s.fills)
      <4>1. i \in Len(s.fills) + 1 .. Len(r.fills)
        BY <1>2, <1>3, <3>2
      <4>2. PICK d \in Sides, u \in T :
              IsTouched(s, d, u) /\ r.fills[i] = FillOf(s.orders[d], d, u, midPx)
        BY <1>1, <4>1 DEF FillsOf
      <4>3. u.ts >= s.orders[d].createdAtMs /\ Touches(d, u, s.orders[d])
        BY <4>2 DEF IsTouched
      <4>4. /\ r.fills[i].ts = u.ts /\ r.fills[i].placedAt = s.orders[d].createdAtMs
            /\ r.fills[i].side = d /\ r.fills[i].tradePx = u.px /\ r.fills[i].orderPx = s.orders[d].price
        BY <4>2 DEF FillOf
      <4>5. QED
        BY <4>3, <4>4 DEF Touches
    <3>3. QED
      BY <3>1, <3>2
  <2>3. QED
    BY <2>1, <2>2 DEF FillsMade
<1>7. PositionBounded(r)
  <2> DEFINE g == GoneSize(s, r, "buy")
             h == GoneSize(s, r, "sell")
             top == Max(Sizes(r.fills))
             low == Max(Sizes(s.fills))
  <2>1. /\ top \in Nat /\ low \in Nat /\ low \in Sizes(s.fills)
        /\ \A y \in Sizes(r.fills) : y \in Nat /\ y <= top
    BY <1>2, <1>3, SizesFacts
  <2>2. DOMAIN r.fills = 1 .. Len(r.fills) /\ DOMAIN s.fills = 1 .. Len(s.fills)
    BY <1>2, <1>3, LenProperties
  <2>3. low \in Sizes(r.fills)
    <3> HIDE DEF low
    <3>1. CASE low = 0
      BY <3>1 DEF Sizes
    <3>2. CASE low # 0
      <4>1. PICK i \in 1 .. Len(s.fills) : low = s.fills[i].size
        BY <2>1, <2>2, <3>2 DEF Sizes
      <4>2. i \in 1 .. Len(r.fills) /\ r.fills[i] = s.fills[i]
        BY <1>1, <1>2, <1>3 DEF FillsOf
      <4>3. QED
        BY <2>2, <4>1, <4>2 DEF Sizes
    <3>3. QED
      BY <3>1, <3>2
  <2>4. ASSUME NEW d \in Sides PROVE GoneSize(s, r, d) \in Sizes(r.fills)
    <3>1. CASE s.orders[d] # Undefined /\ r.orders[d] = Undefined
      <4>1. PICK i \in 1 .. Len(r.fills) : r.fills[i].size = s.orders[d].size
        BY <1>1, <3>1 DEF Counts
      <4>2. QED
        BY <2>2, <3>1, <4>1 DEF GoneSize, Sizes
    <3>2. CASE ~(s.orders[d] # Undefined /\ r.orders[d] = Undefined)
      BY <3>2 DEF GoneSize, Sizes
    <3>3. QED
      BY <3>1, <3>2
  <2>5. r.position = s.position + g - h
    BY <1>1 DEF Counts
  <2>6. "buy" \in Sides /\ "sell" \in Sides
    BY DEF Sides
  <2>7. g \in Nat /\ g <= top /\ h \in Nat /\ h <= top /\ low <= top
    <3> HIDE DEF g, h, top, low
    <3>1. g \in Sizes(r.fills) /\ h \in Sizes(r.fills)
      BY <2>4, <2>6 DEF g, h
    <3>2. QED
      BY <2>1, <2>3, <3>1
  <2>8. AbsVal(s.position) <= Params.maxInventory + low
    BY DEF SimOK, PositionBounded
  <2>9. Params.maxInventory \in Nat /\ AbsVal(s.position) \in Nat
    BY <1>2, ConstantTypes, AbsType
  <2>10. CASE Idle(s)
    <3>1. g = 0 /\ h = 0
      BY <2>6, <2>10 DEF Idle, GoneSize
    <3> HIDE DEF g, h, low, top
    <3>2. r.position = s.position
      BY <1>2, <2>5, <3>1
    <3>3. QED
      BY <2>1, <2>7, <2>8, <2>9, <3>2 DEF PositionBounded, top
  <2>11. CASE ~Idle(s)
    <3>1. AbsVal(s.position) <= Params.maxInventory
      BY <2>9, <2>11
    <3> HIDE DEF g, h, low, top
    <3> DEFINE p == s.position
               q == r.position
               limit == Params.maxInventory
    <3>2. /\ p \in Int /\ g \in Int /\ h \in Int /\ q \in Int /\ limit \in Nat /\ top \in Nat
          /\ g >= 0 /\ h >= 0 /\ g <= top /\ h <= top /\ q = p + g - h /\ AbsVal(p) <= limit
      BY <1>2, <1>3, <2>1, <2>5, <2>7, <2>9, <3>1
    <3> HIDE DEF p, q, limit
    <3>3. AbsVal(q) <= limit + top
      BY <3>2, Overshoot
    <3>4. QED
      BY <3>3 DEF PositionBounded, top, q, limit
  <2>12. QED
    BY <2>10, <2>11
<1>8. QED
  BY <1>4, <1>5, <1>6, <1>7 DEF SimOK

(* Placing and cancelling keep the totals. *)
LEMMA SettledOK ==
  ASSUME NEW s, NEW r, Settled(s, r), SimOK(s)
  PROVE  SimOK(r)
BY DEF Settled, SimOK, FillsMade, PositionBounded

(* A position beyond the limit asks for PAUSE, and PAUSE cancels. *)
LEMMA ExcessPauses ==
  ASSUME NEW st \in StrategyState, DeadlineMatches(st), NEW f \in FeatureRecord, NEW position \in Int,
         NEW t \in Int
  PROVE  LET out == Decide(t, st, EvaluateRisk(f, position, Params))
         IN  /\ out.nextState \in StrategyState /\ DeadlineMatches(out.nextState)
             /\ AbsVal(position) > Params.maxInventory => out.intent = "CANCEL_ALL"
<1> DEFINE risk == EvaluateRisk(f, position, Params)
           out == Decide(t, st, risk)
<1>1. risk \in RiskEvaluation
  <2>1. HardPause(f, position, Params) \in BOOLEAN /\ SoftRisk(f) \in BOOLEAN
    BY DEF HardPause, SoftRisk, FeatureRecord
  <2>2. QED
    BY <2>1 DEF EvaluateRisk, RiskEvaluation
<1> HIDE DEF risk
<1>2. out.nextState \in StrategyState /\ DeadlineMatches(out.nextState)
  BY <1>1, DecideFacts
<1>3. ASSUME AbsVal(position) > Params.maxInventory PROVE out.intent = "CANCEL_ALL"
  <2>1. risk.shouldPause
    BY <1>3 DEF risk, EvaluateRisk, HardPause
  <2>2. QED
    BY <2>1 DEF Decide, DetermineNextMode
<1>4. QED
  BY <1>2, <1>3 DEF risk

-----------------------------------------------------------------------------
(* The binary search                                                       *)

(* The rows are in the order of their times. *)
InOrder == \A i, j \in DOMAIN bboData : i <= j => bboData[i].ts <= bboData[j].ts

(* v is the last index from l to r whose row is not later than the target,  *)
(* and the one before l when there is none.                                *)
IsLast(l, r, v, targetMs) ==
  /\ v \in Int /\ l - 1 <= v /\ v <= r
  /\ \A k \in l .. v : bboData[k].ts <= targetMs
  /\ \A k \in v + 1 .. r : bboData[k].ts > targetMs

(* The rows of md_bbo have times. *)
LEMMA BboTimes ==
  ASSUME bboData \in Seq(MidSnapshot)
  PROVE  /\ Len(bboData) \in Nat /\ DOMAIN bboData = 1 .. Len(bboData)
         /\ \A i \in 1 .. Len(bboData) : bboData[i].ts \in Int
<1>1. Len(bboData) \in Nat /\ DOMAIN bboData = 1 .. Len(bboData)
  BY LenProperties
<1>2. ASSUME NEW i \in 1 .. Len(bboData) PROVE bboData[i].ts \in Int
  <2>1. bboData[i] \in MidSnapshot
    BY <1>1
  <2>2. QED
    BY <2>1 DEF MidSnapshot
<1>3. QED
  BY <1>1, <1>2

(* The index the binary search is after exists, because the rows are in    *)
(* order,                                                                  *)
LEMMA LastExists ==
  ASSUME bboData \in Seq(MidSnapshot), InOrder, NEW targetMs \in Int,
         NEW l \in 1 .. Len(bboData) + 1, NEW r \in 0 .. Len(bboData), l <= r + 1
  PROVE  \E v \in Int : IsLast(l, r, v, targetMs)
<1> DEFINE n == Len(bboData)
           S == {k \in l .. r : bboData[k].ts <= targetMs}
<1>0. n \in Nat
  BY BboTimes
<1>1. n \in Nat /\ DOMAIN bboData = 1 .. n /\ \A i \in 1 .. n : bboData[i].ts \in Int
  BY BboTimes
<1> HIDE DEF n
<1>2. l \in Int /\ r \in Int /\ l >= 1 /\ r <= n
  BY <1>1 DEF n
<1>3. S \in SUBSET (1 .. n) /\ \A k \in l .. r : k \in 1 .. n
  BY <1>1, <1>2
<1>4. CASE S = {}
  <2>1. \A k \in l .. r : ~(bboData[k].ts <= targetMs)
    BY <1>4
  <2>2. \A k \in (l - 1) + 1 .. r : bboData[k].ts > targetMs
    BY <1>1, <1>2, <1>3, <2>1
  <2>3. IsLast(l, r, l - 1, targetMs) /\ l - 1 \in Int
    BY <1>2, <2>2 DEF IsLast
  <2>4. QED
    BY <2>3
<1>5. CASE S # {}
  <2> DEFINE v == Max(S)
  <2>1. v \in S /\ \A i \in S : v >= i
    <3> HIDE DEF S
    <3>1. QED
      BY <1>1, <1>3, <1>5, GreatestExists
  <2> HIDE DEF v
  <2>2. v \in Int /\ l <= v /\ v <= r /\ bboData[v].ts <= targetMs /\ v \in 1 .. n
    BY <1>2, <1>3, <2>1
  <2>3. ASSUME NEW k \in l .. v PROVE bboData[k].ts <= targetMs
    <3>1. k \in 1 .. n /\ k <= v
      BY <1>0, <1>2, <2>2
    <3>2. bboData[k].ts <= bboData[v].ts
      BY <1>1, <2>2, <3>1 DEF InOrder
    <3>3. QED
      BY <1>1, <2>2, <3>1, <3>2
  <2>4. ASSUME NEW k \in v + 1 .. r PROVE bboData[k].ts > targetMs
    <3>1. k \in l .. r /\ ~(v >= k)
      BY <1>2, <2>2
    <3>2. k \notin S
      BY <2>1, <3>1
    <3>3. QED
      BY <1>1, <1>3, <3>1, <3>2
  <2>5. IsLast(l, r, v, targetMs)
    BY <1>2, <2>2, <2>3, <2>4 DEF IsLast
  <2>6. QED
    BY <2>2, <2>5
<1>6. QED
  BY <1>4, <1>5

(* and it is the only one. *)
LEMMA LastUnique ==
  ASSUME NEW l \in Int, NEW r \in Int, NEW v, NEW w, NEW targetMs \in Int, l >= 1, r <= Len(bboData),
         bboData \in Seq(MidSnapshot), IsLast(l, r, v, targetMs), IsLast(l, r, w, targetMs)
  PROVE  v = w
<1>1. v \in Int /\ w \in Int /\ l - 1 <= v /\ v <= r /\ l - 1 <= w /\ w <= r
  BY DEF IsLast
<1>2. Len(bboData) \in Nat /\ \A i \in 1 .. Len(bboData) : bboData[i].ts \in Int
  BY BboTimes
<1>3. ~(v < w)
  <2> SUFFICES ASSUME v < w PROVE FALSE
    OBVIOUS
  <2>1. v + 1 \in l .. w /\ v + 1 \in v + 1 .. r /\ v + 1 \in 1 .. Len(bboData)
    BY <1>1, <1>2
  <2>2. bboData[v + 1].ts <= targetMs /\ bboData[v + 1].ts > targetMs
    BY <2>1 DEF IsLast
  <2>3. QED
    BY <1>2, <2>1, <2>2
<1>4. ~(w < v)
  <2> SUFFICES ASSUME w < v PROVE FALSE
    OBVIOUS
  <2>1. w + 1 \in l .. v /\ w + 1 \in w + 1 .. r /\ w + 1 \in 1 .. Len(bboData)
    BY <1>1, <1>2
  <2>2. bboData[w + 1].ts <= targetMs /\ bboData[w + 1].ts > targetMs
    BY <2>1 DEF IsLast
  <2>3. QED
    BY <1>2, <2>1, <2>2
<1>5. QED
  BY <1>1, <1>3, <1>4

(* What the search decides at an index in the middle. *)
LEMMA LastBeyond ==
  ASSUME bboData \in Seq(MidSnapshot), InOrder, NEW targetMs \in Int,
         NEW l \in Int, NEW r \in Int, NEW mid \in Int, NEW v,
         l >= 1, r <= Len(bboData), l <= mid, mid <= r
  PROVE  /\ bboData[mid].ts <= targetMs /\ IsLast(mid + 1, r, v, targetMs) => IsLast(l, r, v, targetMs)
         /\ ~(bboData[mid].ts <= targetMs) /\ IsLast(l, mid - 1, v, targetMs) => IsLast(l, r, v, targetMs)
<1> DEFINE n == Len(bboData)
<1>0. n \in Nat
  BY BboTimes
<1>1. n \in Nat /\ DOMAIN bboData = 1 .. n /\ \A i \in 1 .. n : bboData[i].ts \in Int
  BY BboTimes
<1>2. r <= n
  OBVIOUS
<1> HIDE DEF n
<1>3. mid \in 1 .. n
  BY <1>1, <1>2
<1>4. ASSUME bboData[mid].ts <= targetMs, IsLast(mid + 1, r, v, targetMs) PROVE IsLast(l, r, v, targetMs)
  <2>1. v \in Int /\ mid <= v /\ v <= r /\ \A k \in v + 1 .. r : bboData[k].ts > targetMs
    BY <1>4 DEF IsLast
  <2>2. ASSUME NEW k \in l .. v PROVE bboData[k].ts <= targetMs
    <3>1. CASE k \in mid + 1 .. v
      BY <1>4, <3>1 DEF IsLast
    <3>2. CASE k \notin mid + 1 .. v
      <4>1. k \in 1 .. n /\ k <= mid
        BY <1>0, <1>2, <1>3, <2>1, <3>2
      <4>2. bboData[k].ts <= bboData[mid].ts
        BY <1>1, <1>3, <4>1 DEF InOrder
      <4>3. QED
        BY <1>1, <1>3, <1>4, <4>1, <4>2
    <3>3. QED
      BY <3>1, <3>2
  <2>3. QED
    BY <2>1, <2>2 DEF IsLast
<1>5. ASSUME ~(bboData[mid].ts <= targetMs), IsLast(l, mid - 1, v, targetMs) PROVE IsLast(l, r, v, targetMs)
  <2>1. v \in Int /\ l - 1 <= v /\ v <= mid - 1 /\ \A k \in l .. v : bboData[k].ts <= targetMs
    BY <1>5 DEF IsLast
  <2>2. ASSUME NEW k \in v + 1 .. r PROVE bboData[k].ts > targetMs
    <3>1. CASE k \in v + 1 .. mid - 1
      BY <1>5, <3>1 DEF IsLast
    <3>2. CASE k \notin v + 1 .. mid - 1
      <4>1. k \in 1 .. n /\ mid <= k
        BY <1>0, <1>2, <1>3, <2>1, <3>2
      <4>2. bboData[mid].ts <= bboData[k].ts
        BY <1>1, <1>3, <4>1 DEF InOrder
      <4>3. QED
        BY <1>1, <1>3, <1>5, <4>1, <4>2
    <3>3. QED
      BY <3>1, <3>2
  <2>3. QED
    BY <2>1, <2>2 DEF IsLast
<1>6. QED
  BY <1>4, <1>5

(* The equation of the search, over pairs of indices. *)
Spans == (1 .. Len(bboData) + 1) \X (0 .. Len(bboData))
Middle(span) == (span[1] + span[2]) \div 2
SearchStep(f, targetMs, span) ==
  IF span[1] > span[2] THEN span[1] - 1
  ELSE IF bboData[Middle(span)].ts <= targetMs THEN f[<<Middle(span) + 1, span[2]>>]
  ELSE f[<<span[1], Middle(span) - 1>>]
IsSearch(f, targetMs) == f = [span \in Spans |-> SearchStep(f, targetMs, span)]

(* The spans a search goes through are pairs of indices. *)
LEMMA SpanFacts ==
  /\ bboData \in Seq(MidSnapshot) => Len(bboData) \in Nat
  /\ \A span \in Spans : /\ span[1] \in 1 .. Len(bboData) + 1 /\ span[2] \in 0 .. Len(bboData)
                         /\ span = <<span[1], span[2]>>
  /\ \A l \in 1 .. Len(bboData) + 1 : \A r \in 0 .. Len(bboData) : <<l, r>> \in Spans
BY LenProperties DEF Spans

(* The two halves are spans again. *)
LEMMA MiddleFacts ==
  ASSUME bboData \in Seq(MidSnapshot), NEW span \in Spans, span[1] <= span[2]
  PROVE  /\ Middle(span) \in Int /\ span[1] <= Middle(span) /\ Middle(span) <= span[2]
         /\ span[1] \in Int /\ span[2] \in Int /\ span[1] >= 1 /\ span[2] <= Len(bboData)
         /\ Middle(span) + 1 \in 1 .. Len(bboData) + 1 /\ Middle(span) - 1 \in 0 .. Len(bboData)
<1> DEFINE l == span[1]
           r == span[2]
           n == Len(bboData)
<1>1. n \in Nat /\ l \in 1 .. n + 1 /\ r \in 0 .. n /\ l <= r
  BY SpanFacts
<1>2. Middle(span) = (l + r) \div 2
  BY DEF Middle
<1> HIDE DEF l, r, n
<1>3. (l + r) \div 2 \in Int /\ l <= (l + r) \div 2 /\ (l + r) \div 2 <= r
  BY <1>1
<1>4. QED
  BY <1>1, <1>2, <1>3 DEF l, r, n

(* A function that satisfies the equation finds the last index. *)
LEMMA SearchFinds ==
  ASSUME bboData \in Seq(MidSnapshot), InOrder, NEW targetMs \in Int,
         NEW f, \A span \in Spans : f[span] = SearchStep(f, targetMs, span)
  PROVE  \A span \in Spans : span[1] <= span[2] + 1 => IsLast(span[1], span[2], f[span], targetMs)
<1> DEFINE Good == {d \in Nat : \A span \in Spans :
                      span[1] <= span[2] + 1 /\ span[2] - span[1] + 1 <= d
                        => IsLast(span[1], span[2], f[span], targetMs)}
<1>0. ASSUME NEW span \in Spans, span[1] = span[2] + 1
      PROVE  IsLast(span[1], span[2], f[span], targetMs)
  <2>1. span[1] \in Int /\ span[2] \in Int
    BY SpanFacts
  <2> HIDE DEF Good
  <2>2. f[span] = SearchStep(f, targetMs, span) /\ span[1] > span[2]
    BY <1>0, <2>1
  <2>3. f[span] = span[1] - 1
    BY <2>2 DEF SearchStep
  <2>4. QED
    BY <1>0, <2>1, <2>3 DEF IsLast
<1>1. 0 \in Good
  <2> SUFFICES ASSUME NEW span \in Spans, span[1] <= span[2] + 1, span[2] - span[1] + 1 <= 0
               PROVE  IsLast(span[1], span[2], f[span], targetMs)
    OBVIOUS
  <2>1. span[1] \in Int /\ span[2] \in Int
    BY SpanFacts
  <2>2. span[1] = span[2] + 1
    BY <2>1
  <2>3. QED
    BY <1>0, <2>2
<1>2. ASSUME NEW d \in Good PROVE d + 1 \in Good
  <2> SUFFICES ASSUME NEW span \in Spans, span[1] <= span[2] + 1, span[2] - span[1] + 1 <= d + 1
               PROVE  IsLast(span[1], span[2], f[span], targetMs)
    OBVIOUS
  <2>0. span[1] \in Int /\ span[2] \in Int /\ d \in Nat
    BY SpanFacts
  <2>00. \A x \in Spans : x[1] <= x[2] + 1 /\ x[2] - x[1] + 1 <= d => IsLast(x[1], x[2], f[x], targetMs)
    OBVIOUS
  <2> HIDE DEF Good
  <2>1. CASE span[1] = span[2] + 1
    BY <1>0, <2>1
  <2>2. CASE span[1] # span[2] + 1
    <3> DEFINE mid == Middle(span)
               up == <<mid + 1, span[2]>>
               down == <<span[1], mid - 1>>
    <3>1. span[1] <= span[2]
      BY <2>0, <2>2
    <3>2. /\ mid \in Int /\ span[1] <= mid /\ mid <= span[2] /\ span[1] >= 1 /\ span[2] <= Len(bboData)
          /\ mid + 1 \in 1 .. Len(bboData) + 1 /\ mid - 1 \in 0 .. Len(bboData)
      BY <3>1, MiddleFacts
    <3>3. span[1] \in 1 .. Len(bboData) + 1 /\ span[2] \in 0 .. Len(bboData)
      BY SpanFacts
    <3>4. f[span] = IF bboData[mid].ts <= targetMs THEN f[up] ELSE f[down]
      BY <2>0, <3>1 DEF SearchStep
    <3> HIDE DEF mid
    <3>5. up \in Spans /\ up[1] = mid + 1 /\ up[2] = span[2]
      BY <3>2, <3>3, SpanFacts
    <3>6. down \in Spans /\ down[1] = span[1] /\ down[2] = mid - 1
      BY <3>2, <3>3, SpanFacts
    <3> HIDE DEF up, down
    <3>7. CASE bboData[mid].ts <= targetMs
      <4>1. up[1] <= up[2] + 1 /\ up[2] - up[1] + 1 <= d
        BY <2>0, <3>2, <3>5
      <4>2. IsLast(up[1], up[2], f[up], targetMs)
        BY <2>00, <3>5, <4>1
      <4>3. f[span] = f[up] /\ IsLast(mid + 1, span[2], f[up], targetMs)
        BY <3>4, <3>5, <3>7, <4>2
      <4>4. QED
        BY <2>0, <3>2, <3>7, <4>3, LastBeyond
    <3>8. CASE ~(bboData[mid].ts <= targetMs)
      <4>1. down[1] <= down[2] + 1 /\ down[2] - down[1] + 1 <= d
        BY <2>0, <3>2, <3>6
      <4>2. IsLast(down[1], down[2], f[down], targetMs)
        BY <2>00, <3>6, <4>1
      <4>3. f[span] = f[down] /\ IsLast(span[1], mid - 1, f[down], targetMs)
        BY <3>4, <3>6, <3>8, <4>2
      <4>4. QED
        BY <2>0, <3>2, <3>8, <4>3, LastBeyond
    <3>9. QED
      BY <3>7, <3>8
  <2>3. QED
    BY <2>1, <2>2
<1>3. Good = Nat
  <2>1. Good \in SUBSET Nat
    OBVIOUS
  <2> HIDE DEF Good
  <2>2. QED
    BY <1>1, <1>2, <2>1, SetInduction
<1>4. ASSUME NEW span \in Spans, span[1] <= span[2] + 1
      PROVE  IsLast(span[1], span[2], f[span], targetMs)
  <2> DEFINE d == span[2] - span[1] + 1
  <2>1. span[1] \in Int /\ span[2] \in Int
    BY SpanFacts
  <2>2. d \in Nat /\ span[2] - span[1] + 1 <= d
    BY <1>4, <2>1
  <2> HIDE DEF d
  <2>3. QED
    BY <1>3, <1>4, <2>2
<1>5. QED
  BY <1>4

(* There is such a function. *)
LEMMA SearchExists ==
  ASSUME bboData \in Seq(MidSnapshot), InOrder, NEW targetMs \in Int
  PROVE  \E f : IsSearch(f, targetMs)
<1> DEFINE Found(span) == CHOOSE v \in Int : IsLast(span[1], span[2], v, targetMs)
           g == [span \in Spans |-> IF span[1] > span[2] THEN span[1] - 1 ELSE Found(span)]
<1>1. ASSUME NEW span \in Spans, span[1] <= span[2] + 1
      PROVE  g[span] \in Int /\ IsLast(span[1], span[2], g[span], targetMs)
  <2>1. span[1] \in 1 .. Len(bboData) + 1 /\ span[2] \in 0 .. Len(bboData) /\ Len(bboData) \in Nat
    BY SpanFacts
  <2>2. CASE span[1] > span[2]
    <3>1. span[1] = span[2] + 1 /\ g[span] = span[1] - 1
      BY <1>1, <2>1, <2>2
    <3> HIDE DEF g
    <3>2. QED
      BY <2>1, <3>1 DEF IsLast
  <2>3. CASE ~(span[1] > span[2])
    <3>1. g[span] = Found(span)
      BY <2>3
    <3>2. \E v \in Int : IsLast(span[1], span[2], v, targetMs)
      BY <1>1, <2>1, LastExists
    <3> HIDE DEF g
    <3>3. QED
      BY <3>1, <3>2
  <2>4. QED
    BY <2>2, <2>3
<1>2. ASSUME NEW span \in Spans PROVE g[span] = SearchStep(g, targetMs, span)
  <2>1. span[1] \in 1 .. Len(bboData) + 1 /\ span[2] \in 0 .. Len(bboData) /\ Len(bboData) \in Nat
    BY SpanFacts
  <2>2. CASE span[1] > span[2]
    BY <2>2 DEF SearchStep
  <2>3. CASE ~(span[1] > span[2])
    <3> DEFINE mid == Middle(span)
               up == <<mid + 1, span[2]>>
               down == <<span[1], mid - 1>>
    <3> HIDE DEF g
    <3>1. span[1] <= span[2] /\ span[1] <= span[2] + 1
      BY <2>1, <2>3
    <3>2. /\ mid \in Int /\ span[1] <= mid /\ mid <= span[2] /\ span[1] >= 1 /\ span[2] <= Len(bboData)
          /\ mid + 1 \in 1 .. Len(bboData) + 1 /\ mid - 1 \in 0 .. Len(bboData)
      BY <3>1, MiddleFacts
    <3>3. SearchStep(g, targetMs, span) = IF bboData[mid].ts <= targetMs THEN g[up] ELSE g[down]
      BY <2>1, <3>1 DEF SearchStep
    <3>4. IsLast(span[1], span[2], g[span], targetMs)
      BY <1>1, <3>1
    <3> HIDE DEF mid
    <3>5. up \in Spans /\ up[1] = mid + 1 /\ up[2] = span[2]
      BY <2>1, <3>2, SpanFacts
    <3>6. down \in Spans /\ down[1] = span[1] /\ down[2] = mid - 1
      BY <2>1, <3>2, SpanFacts
    <3> HIDE DEF up, down
    <3>7. CASE bboData[mid].ts <= targetMs
      <4>1. up[1] <= up[2] + 1
        BY <2>1, <3>2, <3>5
      <4>2. IsLast(up[1], up[2], g[up], targetMs)
        BY <1>1, <3>5, <4>1
      <4>3. IsLast(mid + 1, span[2], g[up], targetMs)
        BY <3>5, <4>2
      <4>4. IsLast(span[1], span[2], g[up], targetMs)
        BY <2>1, <3>2, <3>7, <4>3, LastBeyond
      <4>5. g[span] = g[up]
        BY <2>1, <3>2, <3>4, <4>4, LastUnique
      <4>6. QED
        BY <3>3, <3>7, <4>5
    <3>8. CASE ~(bboData[mid].ts <= targetMs)
      <4>1. down[1] <= down[2] + 1
        BY <2>1, <3>2, <3>6
      <4>2. IsLast(down[1], down[2], g[down], targetMs)
        BY <1>1, <3>6, <4>1
      <4>3. IsLast(span[1], mid - 1, g[down], targetMs)
        BY <3>6, <4>2
      <4>4. IsLast(span[1], span[2], g[down], targetMs)
        <5>1. span[1] \in Int /\ span[2] \in Int
          BY <2>1
        <5>2. QED
          BY <3>2, <3>8, <4>3, <5>1, LastBeyond
      <4>5. g[span] = g[down]
        BY <2>1, <3>2, <3>4, <4>4, LastUnique
      <4>6. QED
        BY <3>3, <3>8, <4>5
    <3>9. QED
      BY <3>7, <3>8
  <2>4. QED
    BY <2>2, <2>3
<1>3. DOMAIN g = Spans /\ g = [span \in Spans |-> g[span]]
  OBVIOUS
<1> HIDE DEF g
<1>4. IsSearch(g, targetMs)
  BY <1>2, <1>3 DEF IsSearch
<1>5. QED
  BY <1>4

(* findBboBeforeTime finds the last row that is not later than the target.  *)
LEMMA FindBboFacts ==
  ASSUME bboData \in Seq(MidSnapshot), InOrder, NEW targetMs \in Int
  PROVE  IsLast(1, Len(bboData), FindBboBeforeTime(targetMs), targetMs)
<1> DEFINE Search == CHOOSE f : IsSearch(f, targetMs)
<1>1. FindBboBeforeTime(targetMs) = Search[<<1, Len(bboData)>>]
  BY DEF FindBboBeforeTime, IsSearch, Spans, SearchStep, Middle
<1>2. IsSearch(Search, targetMs)
  BY SearchExists
<1> HIDE DEF Search
<1>3. \A span \in Spans : Search[span] = SearchStep(Search, targetMs, span)
  BY <1>2 DEF IsSearch
<1> DEFINE whole == <<1, Len(bboData)>>
<1>4. whole \in Spans /\ whole[1] = 1 /\ whole[2] = Len(bboData) /\ Len(bboData) \in Nat
  BY SpanFacts
<1> HIDE DEF whole
<1>5. whole[1] <= whole[2] + 1
  BY <1>4
<1>6. IsLast(whole[1], whole[2], Search[whole], targetMs)
  BY <1>3, <1>4, <1>5, SearchFinds
<1>7. QED
  BY <1>1, <1>4, <1>6 DEF whole

(* The markout of a fill is computed with the newest row it may use. *)
LEMMA EnrichedFacts ==
  ASSUME bboData \in Seq(MidSnapshot), InOrder, NEW fill \in Fill
  PROVE  LET usable == {j \in DOMAIN bboData : bboData[j].ts \in fill.ts .. (fill.ts + WindowMs)}
         IN  /\ Enriched(fill).ts = fill.ts
             /\ Enriched(fill).midT10s = IF usable = {} THEN Undefined ELSE bboData[Max(usable)].midPx
<1> DEFINE usable == {j \in DOMAIN bboData : bboData[j].ts \in fill.ts .. (fill.ts + WindowMs)}
           target == fill.ts + WindowMs
           i == FindBboBeforeTime(target)
           known == i > 0 /\ bboData[i].ts >= fill.ts
           n == Len(bboData)
<1>1. n \in Nat /\ DOMAIN bboData = 1 .. n /\ \A j \in 1 .. n : bboData[j].ts \in Int
  BY BboTimes
<1>2. fill.ts \in Int /\ WindowMs \in Nat /\ target \in Int
  BY ConstantTypes DEF Fill
<1>3. IsLast(1, n, i, target)
  <2> HIDE DEF target
  <2>1. QED
    BY <1>2, FindBboFacts
<1>4. Enriched(fill).ts = fill.ts /\ Enriched(fill).midT10s = IF known THEN bboData[i].midPx ELSE Undefined
  BY DEF Enriched
<1> HIDE DEF i
<1>5. /\ i \in Int /\ 0 <= i /\ i <= n
      /\ \A k \in 1 .. i : bboData[k].ts <= target
      /\ \A k \in i + 1 .. n : bboData[k].ts > target
  <2> HIDE DEF n, target
  <2>1. 1 - 1 = 0
    OBVIOUS
  <2>2. QED
    BY <1>3, <2>1 DEF IsLast
<1>6. CASE known
  <2>1. i \in 1 .. n /\ i \in 1 .. i
    BY <1>1, <1>5, <1>6
  <2>2. i \in usable
    <3>1. bboData[i].ts \in Int /\ bboData[i].ts <= target /\ bboData[i].ts >= fill.ts
      BY <1>1, <1>5, <1>6, <2>1
    <3>2. QED
      BY <1>1, <1>2, <2>1, <3>1
  <2>3. ASSUME NEW j \in usable PROVE i >= j
    <3>1. j \in 1 .. n /\ bboData[j].ts \in Int /\ bboData[j].ts <= target
      BY <1>1, <1>2
    <3>2. ~(j \in i + 1 .. n)
      BY <1>2, <1>5, <3>1
    <3> HIDE DEF n, usable, target
    <3>3. QED
      BY <1>1, <1>5, <3>1, <3>2
  <2>4. usable \in SUBSET (1 .. n) /\ usable # {}
    BY <1>1, <2>2
  <2>5. Max(usable) \in usable /\ \A j \in usable : Max(usable) >= j
    <3> HIDE DEF usable, n
    <3>1. QED
      BY <1>1, <2>4, GreatestExists
  <2>6. Max(usable) = i
    <3>1. Max(usable) >= i /\ i >= Max(usable) /\ Max(usable) \in 1 .. n
      BY <2>2, <2>3, <2>4, <2>5
    <3> HIDE DEF usable, n
    <3>2. QED
      BY <1>1, <1>5, <3>1
  <2> HIDE DEF usable
  <2>7. QED
    BY <1>4, <1>6, <2>4, <2>6 DEF usable
<1>7. CASE ~known
  <2>1. ASSUME NEW j \in usable PROVE FALSE
    <3>1. j \in 1 .. n /\ bboData[j].ts \in Int /\ bboData[j].ts <= target /\ bboData[j].ts >= fill.ts
      BY <1>1, <1>2
    <3>2. j <= i
      <4>1. ~(j \in i + 1 .. n)
        BY <1>2, <1>5, <3>1
      <4> HIDE DEF n, usable, target
      <4>2. QED
        BY <1>1, <1>5, <3>1, <4>1
    <3>3. i \in 1 .. n /\ bboData[j].ts <= bboData[i].ts
      <4>1. i \in 1 .. n
        BY <1>1, <1>5, <3>1, <3>2
      <4>2. QED
        BY <1>1, <3>1, <3>2, <4>1 DEF InOrder
    <3>4. bboData[i].ts >= fill.ts /\ i > 0
      BY <1>1, <1>2, <3>1, <3>3
    <3>5. QED
      BY <1>7, <3>4
  <2>2. usable = {}
    BY <2>1
  <2> HIDE DEF usable
  <2>3. QED
    BY <1>4, <1>7, <2>2 DEF usable
<1>8. QED
  BY <1>6, <1>7

-----------------------------------------------------------------------------
(* The inductive invariant                                                 *)

(* No order was passed by a trade up to t: one since it was placed that     *)
(* reached its price.                                                      *)
Unpassed(s, trades, t) ==
  \A d \in Sides : \A i \in DOMAIN trades :
    s.orders[d] # Undefined /\ s.orders[d].createdAtMs < trades[i].ts /\ trades[i].ts <= t
      => ~Touches(d, trades[i], s.orders[d])

(* The inductive invariant. The two markets and the rows are as the        *)
(* features and the search need them; orders and totals are in step; what  *)
(* rests was placed before the trades the next tick looks at, has not been *)
(* passed, and is within the limit.                                        *)
ReplayInv ==
  /\ ReplayTypes /\ BboSorted /\ OrdersPlaced /\ RestsOnData
  /\ SameMarket(market, cache, tickMs)
  /\ SimOK(sim)
  /\ AbsVal(sim.position) > Params.maxInventory => Idle(sim)
  /\ Unpassed(sim, market.trades, tickMs - TickIntervalMs)
  /\ MarkoutInWindow

(* Nothing rests when no side has an order. *)
LEMMA IdleFacts == Idle(sim) <=> Resting = {}
BY DEF Idle, Resting

(* FillsMatchTrades follows from the inductive invariant: FillsMade and    *)
(* Unpassed are its two halves,                                            *)
LEMMA InvGivesFills == ReplayInv => FillsMatchTrades
<1> SUFFICES ASSUME ReplayInv PROVE FillsMatchTrades
  OBVIOUS
<1>1. FillsMade(sim) /\ Unpassed(sim, market.trades, tickMs - TickIntervalMs)
  BY DEF ReplayInv, SimOK
<1>2. QED
  BY <1>1 DEF FillsMatchTrades, FillsMade, Unpassed, Resting

(* so does TotalsAgree, with the orders counted by side, *)
LEMMA InvGivesTotals == ReplayInv => TotalsAgree
<1> SUFFICES ASSUME ReplayInv PROVE TotalsAgree
  OBVIOUS
<1>1. sim \in Sim /\ SimOK(sim)
  BY DEF ReplayInv, ReplayTypes
<1>2. Cardinality(Resting) = Rests(sim, "buy") + Rests(sim, "sell")
  BY RestingCount DEF Resting
<1>3. sim.orderIdCounter = Len(sim.fills) + sim.cancelCount + Cardinality(Resting)
  <2> DEFINE L == Len(sim.fills)
             c == sim.cancelCount
             b == Rests(sim, "buy")
             a == Rests(sim, "sell")
  <2>1. L \in Int /\ c \in Int /\ b \in Int /\ a \in Int
    BY <1>1, SimTypes, RestsType
  <2>2. sim.orderIdCounter = L + c + b + a
    BY <1>1 DEF SimOK, Balanced
  <2> HIDE DEF L, c, b, a
  <2>3. sim.orderIdCounter = L + c + (b + a)
    BY <2>1, <2>2
  <2>4. QED
    BY <1>2, <2>3 DEF L, c, b, a
<1>4. OrderSize = Max(Sizes(sim.fills))
  BY DEF OrderSize, Sizes
<1>5. QED
  BY <1>1, <1>3, <1>4, IdleFacts DEF ReplayInv, SimOK, PositionBounded, TotalsAgree

(* and ReplayMatchesLive, because the features are read through the        *)
(* windows.                                                                *)
LEMMA InvGivesSame == ReplayInv => ReplayMatchesLive
BY SameFeatures DEF ReplayInv, ReplayTypes, ReplayMatchesLive

-----------------------------------------------------------------------------
(* The invariant holds at the start                                        *)

(* The replay starts with empty markets and without orders or fills. *)
LEMMA NewSimOK == NewSim \in Sim /\ SimOK(NewSim) /\ Idle(NewSim)
<1>1. <<>> \in Seq(Fill) /\ Len(<<>>) = 0 /\ DOMAIN <<>> = {}
  OBVIOUS
<1>2. NewSim.orders = [side \in Sides |-> Undefined] /\ NewSim.position = 0 /\ NewSim.fills = <<>>
      /\ NewSim.cancelCount = 0 /\ NewSim.orderIdCounter = 0
  BY DEF NewSim
<1>3. NewSim \in Sim
  <2> DEFINE Fills == Seq(Fill)
             Orders == [Sides -> SimOrder \cup {Undefined}]
             none == [side \in Sides |-> Undefined]
             empty == <<>>
  <2>1. none \in Orders /\ empty \in Fills /\ "PAUSE" \in Mode
    BY <1>1 DEF Mode
  <2>2. NewSim = [orders |-> none, position |-> 0, fills |-> empty, cancelCount |-> 0, orderIdCounter |-> 0,
                  pauseTransitions |-> 0, lastMode |-> "PAUSE"]
    BY DEF NewSim
  <2> HIDE DEF Fills, Orders, none, empty
  <2>3. NewSim \in [orders : Orders, position : Int, fills : Fills, cancelCount : Nat, orderIdCounter : Nat,
                    pauseTransitions : Nat, lastMode : Mode]
    BY <2>1, <2>2
  <2>4. QED
    BY <2>3 DEF Sim, Fills, Orders
<1>4. Idle(NewSim)
  BY <1>2 DEF Idle
<1>5. Balanced(NewSim)
  <2>1. Rests(NewSim, "buy") = 0 /\ Rests(NewSim, "sell") = 0
    BY <1>4 DEF Idle, Rests, Sides
  <2>2. QED
    BY <1>1, <1>2, <2>1 DEF Balanced
<1>6. NewSim.position = NetFilled(NewSim.fills)
  BY <1>2, NetFilledEmpty
<1>7. FillsMade(NewSim)
  BY <1>1, <1>2 DEF FillsMade
<1>8. PositionBounded(NewSim)
  <2>1. Sizes(NewSim.fills) = {0}
    BY <1>1, <1>2 DEF Sizes
  <2>2. Max(Sizes(NewSim.fills)) = 0
    BY <1>1, <1>2, <2>1, SizesFacts
  <2>3. QED
    BY <1>2, <2>2, ConstantTypes DEF PositionBounded, AbsVal
<1>9. QED
  BY <1>3, <1>4, <1>5, <1>6, <1>7, <1>8 DEF SimOK

(* A market that has seen nothing is a market. *)
LEMMA EmptyMarketType == EmptyMarket \in MarketState
<1> DEFINE Trades == Seq(MarketTrade)
           Snapshots == Seq(MidSnapshot)
           empty == <<>>
<1>1. empty \in Trades /\ empty \in Snapshots /\ Undefined \in OptInt
  BY DEF OptInt
<1>2. EmptyMarket = [bestBidPx |-> 0, bestAskPx |-> 0, markPx |-> Undefined, indexPx |-> Undefined,
                     lastUpdateMs |-> 0, trades |-> empty, midSnapshots |-> empty]
  BY DEF EmptyMarket
<1> HIDE DEF Trades, Snapshots, empty
<1>3. EmptyMarket \in [bestBidPx : Nat, bestAskPx : Nat, markPx : OptInt, indexPx : OptInt,
                       lastUpdateMs : Int, trades : Trades, midSnapshots : Snapshots]
  BY <1>1, <1>2
<1>4. QED
  BY <1>3 DEF MarketState, Trades, Snapshots

(* The invariant holds when the replay starts. *)
LEMMA InitReplayInv == ReplayInit => ReplayInv
<1> SUFFICES ASSUME ReplayInit PROVE ReplayInv
  OBVIOUS
<1>1. tickMs = StartMs /\ lastRow = [ts |-> StartMs, kind |-> "bbo"] /\ bboData = <<>>
      /\ market = EmptyMarket /\ cache = EmptyMarket /\ sim = NewSim /\ enriched = Undefined
      /\ strategy = [mode |-> "NORMAL", modeSinceMs |-> StartMs, pauseUntilMs |-> Undefined,
                     lastQuoteMs |-> Undefined]
  BY DEF ReplayInit
<1>2. ReplayTypes
  <2>1. tickMs \in Int /\ tickMs >= StartMs /\ lastRow.ts \in Int
    BY <1>1, ConstantTypes
  <2>2. bboData \in Seq(MidSnapshot)
    BY <1>1
  <2>3. strategy \in StrategyState /\ DeadlineMatches(strategy)
    BY <1>1, ConstantTypes DEF StrategyState, Mode, OptTime, DeadlineMatches
  <2>4. QED
    BY <1>1, <2>1, <2>2, <2>3, NewSimOK, EmptyMarketType DEF ReplayTypes
<1>3. BboSorted
  BY <1>1 DEF BboSorted
<1>4. Resting = {} /\ Idle(sim)
  BY <1>1, NewSimOK, IdleFacts
<1>5. OrdersPlaced /\ RestsOnData
  BY <1>4 DEF OrdersPlaced, RestsOnData
<1>6. SameMarket(market, cache, tickMs)
  BY <1>1 DEF SameMarket
<1>7. Unpassed(sim, market.trades, tickMs - TickIntervalMs)
  BY <1>4 DEF Unpassed, Idle
<1>8. MarkoutInWindow
  BY <1>1 DEF MarkoutInWindow
<1>9. QED
  BY <1>1, <1>2, <1>3, <1>4, <1>5, <1>6, <1>7, <1>8, NewSimOK DEF ReplayInv

-----------------------------------------------------------------------------
(* A tick keeps it                                                         *)

(* The trades a tick looks at: those of the last interval, none missing. *)
LEMMA RecentFacts ==
  ASSUME NEW m \in MarketState, tickMs \in Int
  PROVE  /\ RecentTrades(m) \in Seq(MarketTrade)
         /\ \A i \in DOMAIN RecentTrades(m) :
              RecentTrades(m)[i] \in MarketTrade /\ RecentTrades(m)[i].ts >= tickMs - TickIntervalMs
         /\ \A j \in DOMAIN m.trades : m.trades[j].ts >= tickMs - TickIntervalMs =>
              \E i \in DOMAIN RecentTrades(m) : RecentTrades(m)[i] = m.trades[j]
<1> DEFINE trades == m.trades
<1>1. trades \in Seq(MarketTrade)
  BY DEF MarketState
<1>2. TickIntervalMs \in Int
  BY ConstantTypes
<1> HIDE DEF trades
<1>3. /\ InWindow(trades, tickMs, TickIntervalMs) \in Seq(MarketTrade)
      /\ \A i \in DOMAIN InWindow(trades, tickMs, TickIntervalMs) :
           InWindow(trades, tickMs, TickIntervalMs)[i].ts >= tickMs - TickIntervalMs
      /\ \A j \in DOMAIN trades : trades[j].ts >= tickMs - TickIntervalMs =>
           \E i \in DOMAIN InWindow(trades, tickMs, TickIntervalMs) :
             InWindow(trades, tickMs, TickIntervalMs)[i] = trades[j]
  BY <1>1, <1>2, WindowItems
<1>4. RecentTrades(m) = InWindow(trades, tickMs, TickIntervalMs)
  BY DEF RecentTrades, trades
<1> DEFINE recent == RecentTrades(m)
<1> HIDE DEF recent
<1>5. /\ recent \in Seq(MarketTrade)
      /\ \A i \in DOMAIN recent : recent[i].ts >= tickMs - TickIntervalMs
      /\ \A j \in DOMAIN trades : trades[j].ts >= tickMs - TickIntervalMs =>
           \E i \in DOMAIN recent : recent[i] = trades[j]
  BY <1>3, <1>4 DEF recent
<1>6. \A i \in DOMAIN recent : recent[i] \in MarketTrade
  BY <1>5
<1>7. QED
  BY <1>5, <1>6 DEF recent, trades

(* What an order that rests after a tick is. *)
Remains(s, r, m) ==
  \A d \in Sides :
    \/ r.orders[d] = Undefined
    \/ PlacedNow(r.orders[d])
    \/ /\ r.orders[d] = s.orders[d]
       /\ \A i \in DOMAIN RecentTrades(m) : ~Touches(d, RecentTrades(m)[i], s.orders[d])

(* A tick with valid data: the trades fill what they touch, the decision    *)
(* cancels or places the rest, and a position beyond the limit leaves no   *)
(* order behind.                                                           *)
LEMMA SimulateFacts ==
  ASSUME ReplayTypes, OrdersPlaced, SimOK(sim), AbsVal(sim.position) > Params.maxInventory => Idle(sim),
         NEW m \in MarketState, HasValidData(m), Simulate(m)
  PROVE  /\ strategy' \in StrategyState /\ DeadlineMatches(strategy')
         /\ sim' \in Sim /\ SimOK(sim')
         /\ AbsVal(sim'.position) > Params.maxInventory => Idle(sim')
         /\ Remains(sim, sim', m)
<1> DEFINE trades == RecentTrades(m)
           mid == CalculateMid(m.bestBidPx, m.bestAskPx)
           filled == CheckTouchFill(sim, trades, mid)
           features == FeaturesAt(m, tickMs, Params)
           out == Decide(tickMs, strategy, EvaluateRisk(features, filled.position, Params))
           next == out.nextState
           tracked == TrackModeTransition(filled, next.mode)
           carried == Carry(out.intent, tracked, features)
<1>1. strategy' = next /\ sim' = carried
  BY DEF Simulate
<1>2. tickMs \in Int /\ sim \in Sim /\ strategy \in StrategyState /\ DeadlineMatches(strategy)
  BY DEF ReplayTypes
<1>3. /\ trades \in Seq(MarketTrade)
      /\ \A i \in DOMAIN trades : trades[i] \in MarketTrade /\ trades[i].ts >= tickMs - TickIntervalMs
  BY <1>2, RecentFacts
<1>4. mid \in Int
  <2>1. m.bestBidPx \in Nat \ {0} /\ m.bestAskPx \in Nat \ {0}
    BY DEF MarketState, HasValidData
  <2>2. mid \in Nat \ {0}
    BY <2>1, MidType
  <2>3. QED
    BY <2>2
<1>5. features \in FeatureRecord
  BY <1>2, FeaturesType
<1> HIDE DEF trades, mid, features
<1>6. /\ Carried(sim, filled, Items(trades), mid)
      /\ \A d \in Sides : \A i \in DOMAIN trades : ~IsTouched(filled, d, trades[i])
  BY <1>2, <1>3, <1>4, CheckTouchFillFacts
<1> HIDE DEF filled
<1>7. filled \in Sim /\ Thinner(sim, filled)
  BY <1>6 DEF Carried
<1>8. SimOK(filled)
  <2>1. ASSUME NEW d \in Sides, NEW u \in Items(trades), sim.orders[d] # Undefined
        PROVE  u.ts >= sim.orders[d].createdAtMs
    <3>1. sim.orders[d].createdAtMs \in StartMs .. (tickMs - TickIntervalMs)
      BY <2>1 DEF OrdersPlaced, Resting
    <3>2. PICK i \in DOMAIN trades : u = trades[i]
      BY DEF Items
    <3>3. u.ts \in Int /\ u.ts >= tickMs - TickIntervalMs
      BY <1>3, <3>2 DEF MarketTrade
    <3> DEFINE a == u.ts
               b == sim.orders[d].createdAtMs
    <3>4. a \in Int /\ a >= tickMs - TickIntervalMs /\ b \in StartMs .. (tickMs - TickIntervalMs)
      BY <3>1, <3>3
    <3> HIDE DEF a, b
    <3>5. a >= b
      BY <1>2, <3>4, ConstantTypes
    <3>6. QED
      BY <3>5 DEF a, b
  <2>2. QED
    BY <1>2, <1>4, <1>6, <2>1, CarriedOK
<1>9. filled.position \in Int
  BY <1>7, SimTypes
<1>10. /\ next \in StrategyState /\ DeadlineMatches(next)
       /\ AbsVal(filled.position) > Params.maxInventory => out.intent = "CANCEL_ALL"
  BY <1>2, <1>5, <1>9, ExcessPauses
<1>11. next.mode \in Mode
  BY <1>10 DEF StrategyState
<1> HIDE DEF out
<1>12. /\ tracked \in Sim
       /\ tracked.orders = filled.orders /\ tracked.fills = filled.fills
       /\ tracked.position = filled.position /\ tracked.cancelCount = filled.cancelCount
       /\ tracked.orderIdCounter = filled.orderIdCounter
  <2> HIDE DEF next
  <2>1. QED
    BY <1>7, <1>11, TrackFacts
<1> HIDE DEF tracked, next
<1>13. SimOK(tracked)
  BY <1>8, <1>12 DEF SimOK, Balanced, Rests, FillsMade, PositionBounded
<1>14. /\ Settled(tracked, carried)
       /\ out.intent = "CANCEL_ALL" => \A d \in Sides : carried.orders[d] = Undefined
  BY <1>2, <1>5, <1>12, CarryFacts
<1> HIDE DEF carried
<1>15. carried \in Sim /\ SimOK(carried) /\ carried.position = filled.position
  BY <1>12, <1>13, <1>14, SettledOK DEF Settled
<1>16. AbsVal(carried.position) > Params.maxInventory => Idle(carried)
  BY <1>10, <1>14, <1>15 DEF Idle
<1>17. Remains(sim, carried, m)
  <2> SUFFICES ASSUME NEW d \in Sides, carried.orders[d] # Undefined, ~PlacedNow(carried.orders[d])
               PROVE  /\ carried.orders[d] = sim.orders[d]
                      /\ \A i \in DOMAIN trades : ~Touches(d, trades[i], sim.orders[d])
    BY DEF Remains, trades
  <2>1. carried.orders[d] = filled.orders[d]
    BY <1>12, <1>14 DEF Settled
  <2>2. filled.orders[d] = sim.orders[d] /\ filled.orders[d] # Undefined
    BY <1>7, <2>1 DEF Thinner
  <2>3. QED
    BY <1>6, <2>1, <2>2 DEF IsTouched
<1>18. QED
  BY <1>1, <1>10, <1>15, <1>16, <1>17

(* What a tick does to the simulation and the strategy, with data and       *)
(* without.                                                                *)
LEMMA TickFacts ==
  ASSUME ReplayInv, ReplayTick
  PROVE  /\ strategy' \in StrategyState /\ DeadlineMatches(strategy')
         /\ sim' \in Sim /\ SimOK(sim')
         /\ AbsVal(sim'.position) > Params.maxInventory => Idle(sim')
         /\ Idle(sim') \/ HasValidData(market')
         /\ Remains(sim, sim', market')
<1>1. /\ market' = Prune(market, tickMs)
      /\ IF HasValidData(market') THEN Simulate(market') ELSE UNCHANGED <<strategy, sim, lastQuoteMs>>
  BY DEF ReplayTick
<1>2. /\ ReplayTypes /\ OrdersPlaced /\ RestsOnData /\ SimOK(sim)
      /\ AbsVal(sim.position) > Params.maxInventory => Idle(sim)
  BY DEF ReplayInv
<1>3. market \in MarketState /\ tickMs \in Int
  BY <1>2 DEF ReplayTypes
<1> DEFINE m == Prune(market, tickMs)
<1>4. m \in MarketState /\ (HasValidData(m) <=> HasValidData(market))
  BY <1>3, PruneFacts
<1>5. CASE HasValidData(m)
  <2>1. Simulate(m)
    BY <1>1, <1>5
  <2> HIDE DEF m
  <2>2. /\ strategy' \in StrategyState /\ DeadlineMatches(strategy')
        /\ sim' \in Sim /\ SimOK(sim')
        /\ AbsVal(sim'.position) > Params.maxInventory => Idle(sim')
        /\ Remains(sim, sim', m)
    BY <1>2, <1>4, <1>5, <2>1, SimulateFacts
  <2>3. QED
    BY <1>1, <1>5, <2>2 DEF m
<1>6. CASE ~HasValidData(m)
  <2>1. strategy' = strategy /\ sim' = sim
    BY <1>1, <1>6
  <2>2. Idle(sim)
    BY <1>2, <1>4, <1>6, IdleFacts DEF RestsOnData
  <2>3. Remains(sim, sim', market')
    BY <2>1, <2>2 DEF Remains, Idle
  <2>4. QED
    BY <1>2, <2>1, <2>2, <2>3 DEF ReplayTypes
<1>7. QED
  BY <1>5, <1>6

(* After a tick no order was passed by a trade up to the tick: the tick    *)
(* looked at the trades of the last interval, and the older ones had been  *)
(* looked at before.                                                       *)
LEMMA TickUnpassed ==
  ASSUME ReplayInv, ReplayTick
  PROVE  Unpassed(sim', market'.trades, tickMs)
<1>1. tickMs \in Int /\ market \in MarketState
  BY DEF ReplayInv, ReplayTypes
<1>2. market' = Prune(market, tickMs)
  BY DEF ReplayTick
<1> DEFINE m == Prune(market, tickMs)
           old == market.trades
           new == InWindow(old, tickMs, WindowMs)
<1>3. m \in MarketState /\ m.trades = new
  BY <1>1, PruneFacts
<1>4. old \in Seq(MarketTrade) /\ WindowMs \in Int /\ TickIntervalMs \in Int
  BY <1>1, ConstantTypes DEF MarketState
<1>5. \A i \in DOMAIN new : \E j \in DOMAIN old : new[i] = old[j]
  <2> HIDE DEF old
  <2>1. QED
    BY <1>1, <1>4, WindowItems
<1>6. Remains(sim, sim', m)
  BY <1>2, TickFacts
<1>7. Unpassed(sim, old, tickMs - TickIntervalMs)
  BY DEF ReplayInv
<1>8. \A j \in DOMAIN m.trades : m.trades[j].ts >= tickMs - TickIntervalMs =>
        \E i \in DOMAIN RecentTrades(m) : RecentTrades(m)[i] = m.trades[j]
  <2> HIDE DEF m
  <2>1. QED
    BY <1>1, <1>3, RecentFacts
<1>9. \A i \in DOMAIN new : new[i].ts \in Int
  <2>1. \A j \in DOMAIN old : old[j] \in MarketTrade
    <3> HIDE DEF old
    <3>1. QED
      BY <1>4
  <2>2. QED
    BY <1>5, <2>1, ItemTypes
<1> HIDE DEF m, old, new
<1>10. ASSUME NEW d \in Sides, NEW i \in DOMAIN new, sim'.orders[d] # Undefined,
              sim'.orders[d].createdAtMs < new[i].ts, new[i].ts <= tickMs
       PROVE  ~Touches(d, new[i], sim'.orders[d])
  <2>1. ~PlacedNow(sim'.orders[d])
    <3>1. new[i].ts \in Int
      BY <1>9
    <3>2. QED
      BY <1>1, <1>10, <3>1 DEF PlacedNow
  <2>2. /\ sim'.orders[d] = sim.orders[d]
        /\ \A k \in DOMAIN RecentTrades(m) : ~Touches(d, RecentTrades(m)[k], sim.orders[d])
    BY <1>6, <1>10, <2>1 DEF Remains
  <2>3. CASE new[i].ts >= tickMs - TickIntervalMs
    BY <1>3, <1>8, <2>2, <2>3
  <2>4. CASE ~(new[i].ts >= tickMs - TickIntervalMs)
    <3>1. PICK j \in DOMAIN old : new[i] = old[j]
      BY <1>5
    <3>2. new[i].ts <= tickMs - TickIntervalMs
      BY <1>1, <1>4, <1>9, <2>4
    <3>3. QED
      BY <1>7, <1>10, <2>2, <3>1, <3>2 DEF Unpassed
  <2>5. QED
    BY <2>3, <2>4
<1>11. market'.trades = new
  BY <1>2, <1>3 DEF m
<1>12. QED
  BY <1>10, <1>11 DEF Unpassed

(* The backtest prunes before a tick where the executor does not; what     *)
(* both show from then on is the same.                                     *)
LEMMA TickSame ==
  ASSUME ReplayInv, ReplayTick
  PROVE  SameMarket(market', cache', tickMs')
<1>1. tickMs \in Int /\ market \in MarketState /\ cache \in MarketState
      /\ SameMarket(market, cache, tickMs)
  BY DEF ReplayInv, ReplayTypes
<1>2. market' = Prune(market, tickMs) /\ cache' = cache /\ tickMs' = tickMs + TickIntervalMs
  BY DEF ReplayTick
<1> DEFINE u == tickMs + TickIntervalMs
<1>3. u \in Int /\ tickMs <= u
  BY <1>1, ConstantTypes
<1> HIDE DEF u
<1>4. SameMarket(Prune(market, tickMs), market, u)
  BY <1>1, <1>3, PruneUnseen
<1>5. SameMarket(market, cache, u)
  BY <1>1, <1>3, SameLater
<1>6. SameMarket(Prune(market, tickMs), cache, u)
  <2> DEFINE p == Prune(market, tickMs)
  <2> HIDE DEF p
  <2>1. SameMarket(p, market, u)
    BY <1>4 DEF p
  <2>2. SameMarket(p, cache, u)
    BY <1>5, <2>1 DEF SameMarket
  <2>3. QED
    BY <2>2 DEF p
<1>7. QED
  BY <1>2, <1>6 DEF u

(* A tick keeps the invariant. *)
LEMMA TickReplayInv == ReplayInv /\ ReplayTick => ReplayInv'
<1> SUFFICES ASSUME ReplayInv, ReplayTick PROVE ReplayInv'
  OBVIOUS
<1>1. /\ tickMs \in Int /\ tickMs >= StartMs /\ lastRow.ts \in Int /\ bboData \in Seq(MidSnapshot)
      /\ market \in MarketState /\ cache \in MarketState /\ sim \in Sim
      /\ BboSorted /\ OrdersPlaced /\ MarkoutInWindow
  BY DEF ReplayInv, ReplayTypes
<1>2. /\ tickMs' = tickMs + TickIntervalMs
      /\ market' = Prune(market, tickMs)
      /\ lastRow' = lastRow /\ bboData' = bboData /\ cache' = cache /\ enriched' = enriched
  BY DEF ReplayTick
<1>3. /\ strategy' \in StrategyState /\ DeadlineMatches(strategy')
      /\ sim' \in Sim /\ SimOK(sim')
      /\ AbsVal(sim'.position) > Params.maxInventory => Idle(sim')
      /\ Idle(sim') \/ HasValidData(market')
      /\ Remains(sim, sim', market')
  BY TickFacts
<1>4. tickMs' \in Int /\ tickMs' >= StartMs /\ tickMs' - TickIntervalMs = tickMs
  BY <1>1, <1>2, ConstantTypes
<1>5. market' \in MarketState
  BY <1>1, <1>2, PruneFacts
<1>6. ReplayTypes'
  BY <1>1, <1>2, <1>3, <1>4, <1>5 DEF ReplayTypes, DeadlineMatches
<1>7. BboSorted' /\ MarkoutInWindow'
  BY <1>1, <1>2 DEF BboSorted, MarkoutInWindow
<1>8. OrdersPlaced'
  <2> SUFFICES ASSUME NEW d \in Sides, sim'.orders[d] # Undefined
               PROVE  sim'.orders[d].createdAtMs \in StartMs .. tickMs
    BY <1>4 DEF OrdersPlaced, Resting
  <2>1. CASE PlacedNow(sim'.orders[d])
    BY <1>1, <2>1, ConstantTypes DEF PlacedNow
  <2>2. CASE sim'.orders[d] = sim.orders[d]
    <3>1. sim.orders[d].createdAtMs \in StartMs .. (tickMs - TickIntervalMs)
      BY <1>1, <2>2 DEF OrdersPlaced, Resting
    <3>2. QED
      BY <1>1, <2>2, <3>1, ConstantTypes
  <2>3. QED
    BY <1>3, <2>1, <2>2 DEF Remains
<1>9. RestsOnData'
  BY <1>3 DEF RestsOnData, Idle, Resting, HasValidData
<1>10. SameMarket(market, cache, tickMs)'
  BY TickSame DEF SameMarket
<1>11. Unpassed(sim, market.trades, tickMs - TickIntervalMs)'
  BY <1>4, TickUnpassed DEF Unpassed, Touches
<1>12. SimOK(sim)' /\ (AbsVal(sim.position) > Params.maxInventory => Idle(sim))'
  BY <1>3 DEF SimOK, Balanced, Rests, FillsMade, PositionBounded, Idle, Touches, AbsVal, Sizes
<1>13. QED
  BY <1>6, <1>7, <1>8, <1>9, <1>10, <1>11, <1>12 DEF ReplayInv

-----------------------------------------------------------------------------
(* Rows and report keep it                                                 *)

(* The rows of md_bbo stay in the order of their times. *)
LEMMA RowSorted ==
  ASSUME ReplayInv, Row
  PROVE  lastRow.ts \in Int /\ lastRow'.ts \in Int /\ bboData' \in Seq(MidSnapshot) /\ BboSorted'
<1>1. lastRow.ts \in Int /\ bboData \in Seq(MidSnapshot) /\ BboSorted
  BY DEF ReplayInv, ReplayTypes
<1>2. PICK row \in NextRows :
        /\ lastRow' = [ts |-> row.ts, kind |-> row.kind]
        /\ bboData' = IF row.kind = "bbo"
                      THEN Append(bboData, [ts |-> row.ts, midPx |-> CalculateMid(row.bid, row.ask)])
                      ELSE bboData
  BY DEF Row
<1>3. row.ts \in Int /\ row.ts >= lastRow.ts /\ row \in BboRow \cup TradeRow \cup PriceRow
  BY <1>1, RowTypes
<1>4. lastRow'.ts = row.ts
  BY <1>2
<1> DEFINE n == Len(bboData)
<1>5. n \in Nat /\ DOMAIN bboData = 1 .. n /\ \A i \in 1 .. n : bboData[i].ts \in Int
  BY <1>1, BboTimes
<1>6. /\ \A i \in 1 .. n : bboData[i].ts <= row.ts
      /\ \A i, j \in 1 .. n : i <= j => bboData[i].ts <= bboData[j].ts
  <2>1. \A i \in 1 .. n : bboData[i].ts <= lastRow.ts
    BY <1>1, <1>5 DEF BboSorted
  <2>2. \A i, j \in 1 .. n : i <= j => bboData[i].ts <= bboData[j].ts
    BY <1>1, <1>5 DEF BboSorted
  <2> HIDE DEF n
  <2>3. QED
    BY <1>1, <1>3, <1>5, <2>1, <2>2
<1>7. CASE row.kind # "bbo"
  <2>1. bboData' = bboData
    BY <1>2, <1>7
  <2>2. BboSorted'
    BY <1>4, <1>5, <1>6, <2>1 DEF BboSorted
  <2>3. QED
    BY <1>1, <1>3, <1>4, <2>1, <2>2
<1>8. CASE row.kind = "bbo"
  <2>1. row \in BboRow
    BY <1>3, <1>8 DEF TradeRow, PriceRow
  <2> DEFINE x == MidOf(row)
             new == Append(bboData, x)
  <2>2. x \in MidSnapshot /\ x.ts = row.ts
    BY <2>1, MidType DEF MidOf, MidSnapshot, BboRow
  <2>3. bboData' = new
    BY <1>2, <1>8 DEF MidOf
  <2> HIDE DEF x
  <2>4. new \in Seq(MidSnapshot) /\ Len(new) = n + 1 /\ new[n + 1] = x /\ \A i \in 1 .. n : new[i] = bboData[i]
    BY <1>1, <2>2, AppendFacts
  <2> HIDE DEF new
  <2>5. DOMAIN new = 1 .. n + 1
    <3> HIDE DEF n
    <3>1. QED
      BY <2>4, LenProperties
  <2> HIDE DEF n
  <2>6. \A i \in 1 .. n + 1 : new[i].ts <= row.ts
    <3> SUFFICES ASSUME NEW i \in 1 .. n + 1 PROVE new[i].ts <= row.ts
      OBVIOUS
    <3>1. i \in 1 .. n \/ i = n + 1
      BY <1>5
    <3>2. QED
      BY <1>3, <1>6, <2>2, <2>4, <3>1
  <2>7. ASSUME NEW i \in 1 .. n + 1, NEW j \in 1 .. n + 1, i <= j
        PROVE  new[i].ts <= new[j].ts
    <3>1. CASE j = n + 1
      BY <2>2, <2>4, <2>6, <3>1
    <3>2. CASE j # n + 1
      <4>1. j \in 1 .. n /\ i \in 1 .. n
        BY <1>5, <2>7, <3>2
      <4>2. QED
        BY <1>6, <2>4, <2>7, <4>1
    <3>3. QED
      BY <3>1, <3>2
  <2>8. BboSorted'
    BY <1>4, <2>3, <2>5, <2>6, <2>7 DEF BboSorted
  <2>9. QED
    BY <1>1, <1>3, <1>4, <2>3, <2>4, <2>8
<1>9. QED
  BY <1>7, <1>8

(* A row keeps the two markets the same, and the trade it may add is newer  *)
(* than every order was looked at for.                                     *)
LEMMA RowMarkets ==
  ASSUME ReplayInv, Row
  PROVE  /\ market' \in MarketState /\ cache' \in MarketState
         /\ HasValidData(market) => HasValidData(market')
         /\ SameMarket(market', cache', tickMs)
         /\ \/ market'.trades = market.trades
            \/ \E trade \in MarketTrade :
                 /\ market'.trades = Append(market.trades, trade)
                 /\ tickMs > StartMs => trade.ts > tickMs - TickIntervalMs
<1>1. lastRow.ts \in Int /\ tickMs \in Int /\ market \in MarketState /\ cache \in MarketState
      /\ SameMarket(market, cache, tickMs)
  BY DEF ReplayInv, ReplayTypes
<1>2. PICK row \in NextRows :
        /\ tickMs <= EndMs => row.ts <= tickMs
        /\ IF tickMs <= EndMs
           THEN market' = ProcessEvent(market, row) /\ cache' = CacheEvent(cache, row)
           ELSE UNCHANGED <<market, cache>>
  BY DEF Row
<1>3. /\ row.ts \in Int /\ row.ts > 0 /\ row \in BboRow \cup TradeRow \cup PriceRow
      /\ tickMs > StartMs => row.ts > tickMs - TickIntervalMs
      /\ row.kind = "bbo" => row.bid < row.ask
  BY <1>1, RowTypes
<1>4. CASE ~(tickMs <= EndMs)
  <2>1. market' = market /\ cache' = cache
    BY <1>2, <1>4
  <2>2. QED
    BY <1>1, <2>1
<1>5. CASE tickMs <= EndMs
  <2>1. row.ts <= tickMs /\ market' = ProcessEvent(market, row) /\ cache' = CacheEvent(cache, row)
    BY <1>2, <1>5
  <2>2. /\ ProcessEvent(market, row) \in MarketState
        /\ HasValidData(market) => HasValidData(ProcessEvent(market, row))
        /\ \/ ProcessEvent(market, row).trades = market.trades
           \/ /\ TradeOf(row) \in MarketTrade
              /\ ProcessEvent(market, row).trades = Append(market.trades, TradeOf(row))
    BY <1>1, <1>3, ProcessFacts
  <2>3. CacheEvent(cache, row) \in MarketState /\ SameMarket(ProcessEvent(market, row), CacheEvent(cache, row), tickMs)
    BY <1>1, <1>3, <2>1, SameProcess
  <2>4. TradeOf(row).ts = row.ts
    BY DEF TradeOf
  <2> DEFINE m == ProcessEvent(market, row)
             c == CacheEvent(cache, row)
             trade == TradeOf(row)
  <2>5. market' = m /\ cache' = c
    BY <2>1
  <2>6. m \in MarketState /\ c \in MarketState /\ (HasValidData(market) => HasValidData(m)) /\ SameMarket(m, c, tickMs)
    BY <2>2, <2>3
  <2>7. m.trades = market.trades \/ (trade \in MarketTrade /\ m.trades = Append(market.trades, trade))
    BY <2>2
  <2>8. tickMs > StartMs => trade.ts > tickMs - TickIntervalMs
    BY <1>3, <2>4
  <2> HIDE DEF m, c, trade
  <2>9. QED
    BY <2>5, <2>6, <2>7, <2>8
<1>6. QED
  BY <1>4, <1>5

(* A row adds no trade that a tick should have looked at. *)
LEMMA RowUnpassed ==
  ASSUME ReplayInv, Row
  PROVE  Unpassed(sim, market'.trades, tickMs - TickIntervalMs)
<1>1. Unpassed(sim, market.trades, tickMs - TickIntervalMs) /\ tickMs \in Int /\ tickMs >= StartMs
      /\ market \in MarketState /\ OrdersPlaced
  BY DEF ReplayInv, ReplayTypes
<1>2. CASE market'.trades = market.trades
  BY <1>1, <1>2
<1>3. CASE \E trade \in MarketTrade :
             /\ market'.trades = Append(market.trades, trade)
             /\ tickMs > StartMs => trade.ts > tickMs - TickIntervalMs
  <2>1. PICK trade \in MarketTrade :
             /\ market'.trades = Append(market.trades, trade)
             /\ tickMs > StartMs => trade.ts > tickMs - TickIntervalMs
    BY <1>3
  <2> DEFINE old == market.trades
             n == Len(old)
             new == Append(old, trade)
  <2>2. old \in Seq(MarketTrade)
    BY <1>1 DEF MarketState
  <2> HIDE DEF old
  <2>3. new \in Seq(MarketTrade) /\ n \in Nat /\ Len(new) = n + 1 /\ new[n + 1] = trade
        /\ \A i \in 1 .. n : new[i] = old[i]
    BY <2>2, AppendFacts
  <2> HIDE DEF new
  <2>4. DOMAIN new = 1 .. n + 1 /\ DOMAIN old = 1 .. n
    BY <2>2, <2>3, LenProperties
  <2>5. market'.trades = new
    BY <2>1 DEF new, old
  <2> HIDE DEF n
  <2>6. ASSUME NEW d \in Sides, NEW i \in DOMAIN new, sim.orders[d] # Undefined,
               sim.orders[d].createdAtMs < new[i].ts, new[i].ts <= tickMs - TickIntervalMs
        PROVE  ~Touches(d, new[i], sim.orders[d])
    <3>1. i \in 1 .. n \/ i = n + 1
      BY <2>3, <2>4
    <3>2. CASE i \in 1 .. n
      BY <1>1, <2>3, <2>4, <2>6, <3>2 DEF Unpassed, old
    <3>3. CASE i = n + 1
      <4>1. sim.orders[d].createdAtMs \in StartMs .. (tickMs - TickIntervalMs)
        BY <1>1, <2>6 DEF OrdersPlaced, Resting
      <4>2. tickMs > StartMs
        BY <1>1, <4>1, ConstantTypes
      <4>3. trade.ts \in Int /\ trade.ts > tickMs - TickIntervalMs
        BY <2>1, <4>2, ItemTypes
      <4>4. new[i] = trade
        BY <2>3, <3>3
      <4>5. FALSE
        BY <1>1, <2>6, <4>3, <4>4, ConstantTypes
      <4>6. QED
        BY <4>5
    <3>4. QED
      BY <3>1, <3>2, <3>3
  <2>7. QED
    BY <2>5, <2>6 DEF Unpassed
<1>4. QED
  BY <1>2, <1>3, RowMarkets

(* A row keeps the invariant. *)
LEMMA RowReplayInv == ReplayInv /\ Row => ReplayInv'
<1> SUFFICES ASSUME ReplayInv, Row PROVE ReplayInv'
  OBVIOUS
<1>1. /\ ReplayTypes /\ OrdersPlaced /\ RestsOnData /\ SimOK(sim)
      /\ AbsVal(sim.position) > Params.maxInventory => Idle(sim)
  BY DEF ReplayInv
<1>2. tickMs' = tickMs /\ strategy' = strategy /\ sim' = sim /\ enriched' = enriched /\ enriched = Undefined
  BY DEF Row
<1>3. ReplayTypes'
  BY <1>1, <1>2, RowSorted, RowMarkets DEF ReplayTypes, DeadlineMatches
<1>4. BboSorted'
  BY RowSorted
<1>5. OrdersPlaced'
  BY <1>1, <1>2 DEF OrdersPlaced, Resting
<1>6. RestsOnData'
  <2>1. Resting' = Resting
    BY <1>2 DEF Resting
  <2>2. HasValidData(market') <=> HasValidData(market)'
    BY DEF HasValidData
  <2>3. QED
    BY <1>1, <2>1, <2>2, RowMarkets DEF RestsOnData
<1>7. SameMarket(market, cache, tickMs)'
  BY <1>2, RowMarkets DEF SameMarket
<1>8. SimOK(sim)' /\ (AbsVal(sim.position) > Params.maxInventory => Idle(sim))'
  BY <1>1, <1>2 DEF SimOK, Balanced, Rests, FillsMade, PositionBounded, Idle, Touches, AbsVal, Sizes
<1>9. Unpassed(sim, market.trades, tickMs - TickIntervalMs)'
  BY <1>2, RowUnpassed DEF Unpassed, Touches
<1>10. MarkoutInWindow'
  BY <1>2 DEF MarkoutInWindow
<1>11. QED
  BY <1>3, <1>4, <1>5, <1>6, <1>7, <1>8, <1>9, <1>10 DEF ReplayInv

(* Every fill of the report is enriched with the newest row it may use. *)
LEMMA ReportReplayInv == ReplayInv /\ Report => ReplayInv'
<1> SUFFICES ASSUME ReplayInv, Report PROVE ReplayInv'
  OBVIOUS
<1>1. /\ tickMs' = tickMs /\ lastRow' = lastRow /\ bboData' = bboData /\ market' = market
      /\ cache' = cache /\ strategy' = strategy /\ sim' = sim
      /\ enriched' = [i \in DOMAIN sim.fills |-> Enriched(sim.fills[i])]
  BY DEF Report
<1>2. sim \in Sim /\ bboData \in Seq(MidSnapshot) /\ BboSorted
  BY DEF ReplayInv, ReplayTypes
<1>3. InOrder
  BY <1>2 DEF BboSorted, InOrder
<1>4. \A i \in DOMAIN sim.fills : sim.fills[i] \in Fill
  <2> DEFINE fs == sim.fills
  <2>1. fs \in Seq(Fill)
    BY <1>2, SimTypes
  <2> HIDE DEF fs
  <2>2. \A i \in DOMAIN fs : fs[i] \in Fill
    BY <2>1
  <2>3. QED
    BY <2>2 DEF fs
<1> DEFINE NewestUsed(data, x) ==
             LET usable == {j \in DOMAIN data : data[j].ts \in x.ts .. (x.ts + WindowMs)}
             IN  x.midT10s = IF usable = {} THEN Undefined ELSE data[Max(usable)].midPx
           report == [i \in DOMAIN sim.fills |-> Enriched(sim.fills[i])]
<1>5. MarkoutInWindow'
  <2>1. ASSUME NEW f \in Fill PROVE NewestUsed(bboData, Enriched(f))
    <3>1. LET usable == {j \in DOMAIN bboData : bboData[j].ts \in f.ts .. (f.ts + WindowMs)}
          IN  /\ Enriched(f).ts = f.ts
              /\ Enriched(f).midT10s = IF usable = {} THEN Undefined ELSE bboData[Max(usable)].midPx
      BY <1>2, <1>3, EnrichedFacts
    <3>2. QED
      BY <3>1
  <2>2. enriched' # Undefined => \A i \in DOMAIN enriched' : NewestUsed(bboData', enriched'[i])
    <3> HIDE DEF NewestUsed
    <3>1. \A i \in DOMAIN report : NewestUsed(bboData, report[i])
      BY <1>4, <2>1
    <3>2. enriched' = report /\ bboData' = bboData
      BY <1>1
    <3> HIDE DEF report
    <3>3. QED
      BY <3>1, <3>2
  <2>3. QED
    BY <2>2 DEF MarkoutInWindow
<1> HIDE DEF NewestUsed, report
<1>6. ReplayTypes' /\ BboSorted' /\ OrdersPlaced' /\ RestsOnData'
  BY <1>1 DEF ReplayInv, ReplayTypes, DeadlineMatches, BboSorted, OrdersPlaced, RestsOnData, Resting, HasValidData
<1>7. SameMarket(market, cache, tickMs)'
  BY <1>1 DEF ReplayInv, SameMarket
<1>8. SimOK(sim)' /\ (AbsVal(sim.position) > Params.maxInventory => Idle(sim))'
  BY <1>1 DEF ReplayInv, SimOK, Balanced, Rests, FillsMade, PositionBounded, Idle, Touches, AbsVal, Sizes
<1>9. Unpassed(sim, market.trades, tickMs - TickIntervalMs)'
  BY <1>1 DEF ReplayInv, Unpassed, Touches
<1>10. QED
  BY <1>5, <1>6, <1>7, <1>8, <1>9 DEF ReplayInv

(* A step that changes nothing keeps the invariant. *)
LEMMA IdleReplayInv == ReplayInv /\ UNCHANGED replayVars => ReplayInv'
<1> SUFFICES ASSUME ReplayInv, UNCHANGED replayVars PROVE ReplayInv'
  OBVIOUS
<1>1. /\ tickMs' = tickMs /\ lastRow' = lastRow /\ bboData' = bboData /\ market' = market
      /\ cache' = cache /\ strategy' = strategy /\ sim' = sim /\ enriched' = enriched
  BY DEF replayVars
<1>2. ReplayTypes' /\ BboSorted' /\ OrdersPlaced' /\ RestsOnData'
  BY <1>1 DEF ReplayInv, ReplayTypes, DeadlineMatches, BboSorted, OrdersPlaced, RestsOnData, Resting, HasValidData
<1>3. SameMarket(market, cache, tickMs)'
  BY <1>1 DEF ReplayInv, SameMarket
<1>4. SimOK(sim)' /\ (AbsVal(sim.position) > Params.maxInventory => Idle(sim))'
  BY <1>1 DEF ReplayInv, SimOK, Balanced, Rests, FillsMade, PositionBounded, Idle, Touches, AbsVal, Sizes
<1>5. Unpassed(sim, market.trades, tickMs - TickIntervalMs)'
  BY <1>1 DEF ReplayInv, Unpassed, Touches
<1>6. MarkoutInWindow'
  BY <1>1 DEF ReplayInv, MarkoutInWindow
<1>7. QED
  BY <1>2, <1>3, <1>4, <1>5, <1>6 DEF ReplayInv

(* Every step keeps the invariant, *)
LEMMA StepReplayInv == ReplayInv /\ [ReplayNext]_replayVars => ReplayInv'
BY RowReplayInv, TickReplayInv, ReportReplayInv, IdleReplayInv DEF ReplayNext

(* so it holds throughout a replay. *)
LEMMA AlwaysReplayInv == ReplaySpec => []ReplayInv
BY InitReplayInv, StepReplayInv, PTL DEF ReplaySpec

(* In every replay, whatever rows, parameters, tick and windows: an order  *)
(* of the simulation fills only by a trade that reached its price, and     *)
(* after a tick no trade since it was placed has passed it                 *)
(* (checkTouchFill of sim-execution.ts).                                   *)
THEOREM FillsFollowTrades == ReplaySpec => []FillsMatchTrades
BY AlwaysReplayInv, InvGivesFills, PTL

(* How far NextTradeFills fails: a trade that fills an order although the  *)
(* tick that placed it had seen it has exactly the time of that tick, and  *)
(* an older one never fills it (getTradesInWindow).                        *)
FillsNotOlder == \A i \in DOMAIN sim.fills : sim.fills[i].ts >= sim.fills[i].placedAt

THEOREM NoFillByOlderTrade == ReplaySpec => []FillsNotOlder
<1>1. ReplayInv => FillsNotOlder
  BY DEF ReplayInv, SimOK, FillsMade, FillsNotOlder
<1>2. QED
  BY <1>1, AlwaysReplayInv, PTL

(* The totals a backtest reports always agree: placed orders with fills,   *)
(* cancels and resting ones, the position with the fills, and the position *)
(* is at most one order beyond the limit (executeFill, cancelAll and       *)
(* placeBid of sim-execution.ts, evaluateRisk).                            *)
THEOREM TotalsAlwaysAgree == ReplaySpec => []TotalsAgree
BY AlwaysReplayInv, InvGivesTotals, PTL

(* The backtest decides from the features the executor would have had: at  *)
(* every tick its pruned market and the executor's cache, fed with the     *)
(* same rows, show the same (market-data-state.ts and market-data-         *)
(* cache.ts).                                                              *)
THEOREM ReplayIsLive == ReplaySpec => []ReplayMatchesLive
BY AlwaysReplayInv, InvGivesSame, PTL

(* The markout of every fill is computed with the newest row of md_bbo     *)
(* within its window, and with none when there is none: the binary search  *)
(* of findBboBeforeTime finds it whatever the rows are.                    *)
THEOREM MarkoutsInWindow == ReplaySpec => []MarkoutInWindow
<1>1. ReplayInv => MarkoutInWindow
  BY DEF ReplayInv
<1>2. QED
  BY <1>1, AlwaysReplayInv, PTL
=============================================================================
