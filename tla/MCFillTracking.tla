--------------------------- MODULE MCFillTracking ---------------------------
(* A bid whose size is rounded down to two steps of the market, and an ask   *)
(* whose size is raised to the minimum.                                    *)
EXTENDS FillTracking

MCOrders == {"bid", "ask"}
MCRequested == [o \in MCOrders |-> IF o = "bid" THEN 5 ELSE 1]
=============================================================================
