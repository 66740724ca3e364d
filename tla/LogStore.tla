------------------------------ MODULE LogStore ------------------------------
(***************************************************************************)
(* What the log files of IDS promise their reader: a run writes to a log   *)
(* of its own, a log only grows while its run lasts, and a closed log      *)
(* stays as it is until the operator clears all of them. A log that did    *)
(* not fit in the log area is lost as a whole when it is closed.           *)
(***************************************************************************)
EXTENDS Naturals, Sequences

CONSTANTS
  Texts,    \* what a run may print
  MaxLogs   \* items in the log menu

VARIABLE store   \* a sequence of [lines, state]

Last == Len(store)
Open == store # <<>> /\ store[Last].state = "open"

Init == store = <<>>

Begin ==
  /\ ~Open
  /\ Len(store) < MaxLogs
  /\ store' = Append(store, [lines |-> <<>>, state |-> "open"])

Record(t) ==
  /\ Open
  /\ store' = [store EXCEPT ![Last].lines = Append(@, t)]

Close ==
  /\ Open
  /\ store' = [store EXCEPT ![Last].state = "closed"]

Lose ==
  /\ Open
  /\ store' = [store EXCEPT ![Last] = [lines |-> <<>>, state |-> "lost"]]

Clear ==
  /\ ~Open
  /\ store' = <<>>

Next == Begin \/ (\E t \in Texts : Record(t)) \/ Close \/ Lose \/ Clear

Spec == Init /\ [][Next]_store
=============================================================================
