------------------------------ MODULE MCSafety ------------------------------
(***************************************************************************)
(* The two components of which nothing is asked but safety: the switch of  *)
(* parameter rows when operations fail, callbacks overlap and the executor  *)
(* dies, and the backtest.  They have nothing in common; so each is         *)
(* explored in full while the other rests.                                 *)
(***************************************************************************)
EXTENDS MCBacktest, ParamsRollout

VARIABLE part   \* the part that is explored

mcVars == <<part, vars, replayVars>>

MCInit == part \in {"rollout", "replay"} /\ Init /\ ReplayInit

RolloutPart == part = "rollout" /\ Next /\ UNCHANGED <<part, replayVars>>
ReplayPart == part = "replay" /\ ReplayNext /\ UNCHANGED <<part, vars>>

MCNext == RolloutPart \/ ReplayPart

MCSpec == MCInit /\ [][MCNext]_mcVars
=============================================================================
