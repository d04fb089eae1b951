------------------------------- MODULE HeldRows -------------------------------
(***************************************************************************)
(* What the sample store promises its users: a row, once recorded, is held *)
(* for good, in the database or in an archive.  Where it is held, when it  *)
(* moves and what fails on the way is none of their concern.               *)
(*                                                                         *)
(* SampleStore implements this specification (see Held there).             *)
(***************************************************************************)
CONSTANT Row             \* what can be recorded

VARIABLE held            \* the rows recorded so far

Init == held = {}

Record(r) == held' = held \cup {r}

Next == \E r \in Row : Record(r)

Spec == Init /\ [][Next]_held
===============================================================================
