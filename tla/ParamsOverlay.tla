--------------------------- MODULE ParamsOverlay ----------------------------
(***************************************************************************)
(* The executor's overlay on baseHalfSpreadBps: while no fill comes, the   *)
(* spread is tightened step by step, down to a floor; a fill, a pause or    *)
(* new parameters take that back.  Ticks, fills and parameters come in any  *)
(* order and at any time; a fill carries the time of its trade, which may   *)
(* lie in the past when its event is handled.                              *)
(***************************************************************************)
EXTENDS Integers

CONSTANTS
  NoFillWindowMs, TightenStepBps, MinBaseHalfSpreadBps, TightenIntervalMs,
  Bases,         \* base half spreads a row of strategy_params may hold
  MaxFillLag,    \* how old a fill may be when its event is handled
  MaxTime        \* bound: the time explored

ASSUME OverlayAssumption ==
  /\ {NoFillWindowMs, TightenStepBps, TightenIntervalMs, MaxFillLag, MaxTime} \subseteq Nat
  /\ TightenIntervalMs > 0
  /\ MinBaseHalfSpreadBps \in Nat
  /\ Bases \subseteq Nat

VARIABLES
  now,
  base,            \* baseHalfSpreadBps of the row in use
  tightenBps, lastTightenAtMs, lastFillAtMs, active,   \* OverlayState
  effective,       \* the half spread the last tick quoted with
  quietSince       \* history: the trade of the last fill, or a reset since

overlayState == <<tightenBps, lastTightenAtMs, lastFillAtMs, active>>
overlayVars == <<now, base, overlayState, effective, quietSince>>

Null == -1
LowerOf(a, b) == IF a < b THEN a ELSE b
HigherOf(a, b) == IF a > b THEN a ELSE b

OverlayInit ==
  /\ now = 0
  /\ base \in Bases
  /\ tightenBps = 0
  /\ lastTightenAtMs = Null
  /\ lastFillAtMs = Null
  /\ active = TRUE
  /\ effective = base
  /\ quietSince = 0

Elapse ==
  /\ now < MaxTime
  /\ now' = now + 1
  /\ UNCHANGED <<base, overlayState, effective, quietSince>>

OnFill(ts) ==
  /\ lastFillAtMs' = ts
  /\ tightenBps' = 0
  /\ lastTightenAtMs' = IF tightenBps > 0 THEN Null ELSE lastTightenAtMs
  /\ UNCHANGED active

(* Fills of a stream come in the order of their trades.                    *)
Fill ==
  \E ts \in HigherOf(0, now - MaxFillLag) .. now :
    /\ ts >= lastFillAtMs
    /\ OnFill(ts)
    /\ quietSince' = ts
    /\ UNCHANGED <<now, base, effective>>

(* setActive, as it leaves the state for computeEffectiveParams.           *)
AfterSetActive(wanted) ==
  IF active /\ ~wanted
  THEN [tighten |-> 0, last |-> Null]
  ELSE [tighten |-> tightenBps, last |-> lastTightenAtMs]

(* Mutant: the interval between two steps is not kept.                     *)
TightensAlways(overlay) ==
  /\ lastFillAtMs # Null
  /\ now - lastFillAtMs >= NoFillWindowMs
  /\ base - overlay.tighten > MinBaseHalfSpreadBps

(* The early returns of maybeAdjustTighten.                                *)
Tightens(overlay) ==
  /\ lastFillAtMs # Null
  /\ now - lastFillAtMs >= NoFillWindowMs
  /\ overlay.last # Null => now - overlay.last >= TightenIntervalMs
  /\ base - overlay.tighten > MinBaseHalfSpreadBps

(* maybeAdjustTighten: without a reference the first active tick is it.    *)
Adjusted(overlay) ==
  IF Tightens(overlay)
  THEN [tighten |-> LowerOf(overlay.tighten + TightenStepBps, base - MinBaseHalfSpreadBps), last |-> now]
  ELSE overlay

EffectiveBase(tighten) ==
  IF base <= MinBaseHalfSpreadBps
  THEN base
  ELSE LowerOf(base, HigherOf(MinBaseHalfSpreadBps, base - tighten))

(* The part of a tick that concerns the overlay: wanted is whether there is *)
(* market data and the mode is not PAUSE.                                  *)
OverlayTick(wanted) ==
  LET overlay == IF wanted THEN Adjusted(AfterSetActive(TRUE)) ELSE AfterSetActive(FALSE)
  IN  /\ active' = wanted
      /\ tightenBps' = overlay.tighten
      /\ lastTightenAtMs' = overlay.last
      /\ lastFillAtMs' = IF wanted /\ lastFillAtMs = Null THEN now ELSE lastFillAtMs
      /\ effective' = IF wanted THEN EffectiveBase(overlay.tighten) ELSE base
      /\ UNCHANGED <<now, base, quietSince>>

Reset ==
  /\ tightenBps' = 0
  /\ lastTightenAtMs' = Null
  /\ lastFillAtMs' = Null
  /\ active' = TRUE

(* A proposal is applied, or the refresh sees another id or signature.     *)
NewParams ==
  /\ base' \in Bases
  /\ Reset
  /\ quietSince' = now
  /\ UNCHANGED <<now, effective>>

OverlayNext ==
  \/ Elapse \/ Fill \/ NewParams
  \/ \E wanted \in BOOLEAN : OverlayTick(wanted)

-----------------------------------------------------------------------------
(* The spread is never tightened before a whole window without a fill, which *)
(* begins anew with new parameters, after that by no more than a step per   *)
(* interval, and not below the floor, in whatever order fills, pauses and   *)
(* new parameters come.                                                    *)
TightensSlowly ==
  /\ tightenBps > 0 =>
       LET quiet == now - quietSince - NoFillWindowMs
       IN  /\ quiet >= 0
           /\ tightenBps <= TightenStepBps * (1 + quiet \div TightenIntervalMs)
           /\ base - tightenBps >= MinBaseHalfSpreadBps
  /\ \E b \in Bases : effective \in LowerOf(b, MinBaseHalfSpreadBps) .. b
=============================================================================
