---------------------------- MODULE DurableQueue ----------------------------
(***************************************************************************)
(* What a write-behind queue promises: a record waits until it is stored,   *)
(* whatever fails; a record of a kind in Once is then done with, so that it *)
(* is stored once, while others may be stored again.  Only an INSERT whose  *)
(* outcome is in doubt leaves a stored record waiting.                     *)
(***************************************************************************)
EXTENDS Naturals

CONSTANTS
  Kinds,
  Records,
  Once       \* kinds that are stored once

VARIABLES
  waiting,   \* per kind: records accepted and not done with
  stored,    \* per kind and record: its rows, counted up to 2
  doubtful   \* has the outcome of an INSERT been in doubt?

queueVars == <<waiting, stored, doubtful>>

QueueInit ==
  /\ waiting = [k \in Kinds |-> {}]
  /\ stored = [k \in Kinds |-> [r \in Records |-> 0]]
  /\ doubtful = FALSE

Accept(k, r) ==
  /\ r \notin waiting[k] /\ stored[k][r] = 0
  /\ waiting' = [waiting EXCEPT ![k] = @ \cup {r}]
  /\ UNCHANGED <<stored, doubtful>>

StoreRows(k, rows) ==
  stored' = [stored EXCEPT ![k] = [r \in Records |->
    IF r \in rows /\ @[r] < 2 THEN @[r] + 1 ELSE @[r]]]

(* Some waiting records are stored.  What leaves is stored by then.         *)
Commit(k, rows) ==
  /\ rows # {} /\ rows \subseteq waiting[k]
  /\ StoreRows(k, rows)
  /\ waiting' \in [Kinds -> SUBSET Records]
  /\ \A kind \in Kinds :
       /\ waiting'[kind] \subseteq waiting[kind]
       /\ \A r \in waiting[kind] \ waiting'[kind] : stored'[kind][r] > 0
  /\ k \in Once => waiting'[k] = waiting[k] \ rows
  /\ UNCHANGED doubtful

InDoubt(k, rows) ==
  /\ rows # {} /\ rows \subseteq waiting[k]
  /\ StoreRows(k, rows)
  /\ doubtful' = TRUE
  /\ UNCHANGED waiting

QueueNext ==
  \E k \in Kinds :
    \/ \E r \in Records : Accept(k, r)
    \/ \E rows \in SUBSET waiting[k] : Commit(k, rows) \/ InDoubt(k, rows)

QueueSpec == QueueInit /\ [][QueueNext]_queueVars
=============================================================================
