--------------------------- MODULE ListDirectory ---------------------------
(***************************************************************************)
(* What the download of test lists promises: while IDS is up, every list   *)
(* loaded stays as it was loaded and in its place, a new one comes behind  *)
(* the others, and they are cleared all together, when no more of them fit *)
(* or when IDS is started again.                                           *)
(***************************************************************************)
EXTENDS Naturals, Sequences

CONSTANTS
  Lists,    \* what a list may contain
  MaxLists  \* lists that fit

VARIABLES lists, up

Init == lists = <<>> /\ up = FALSE

Start == ~up /\ up' = TRUE /\ lists' = <<>>

Load(l) ==
  /\ up
  /\ Len(lists) < MaxLists
  /\ lists' = Append(lists, l)
  /\ UNCHANGED up

Clear == up /\ Len(lists) = MaxLists /\ lists' = <<>> /\ UNCHANGED up

Quit == up /\ up' = FALSE /\ UNCHANGED lists

Next == Start \/ (\E l \in Lists : Load(l)) \/ Clear \/ Quit

Spec == Init /\ [][Next]_<< lists, up >>
=============================================================================
