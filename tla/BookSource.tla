------------------------------ MODULE BookSource ------------------------------
(***************************************************************************)
(* What a cex.Feed promises the runners that read its cache: a book, once  *)
(* there, stays; it only grows older, or gives way to one received this    *)
(* very moment, one symbol at a time; and no book comes from a feed that   *)
(* has ended.  PairRunner takes its books from such a source.              *)
(***************************************************************************)
EXTENDS Integers

CONSTANTS Symbols,
          Old            \* ages from here on are all the same

None == -1               \* no book yet

VARIABLES age,           \* by symbol: the age of its book
          ended          \* nothing more comes

Init == /\ age = [s \in Symbols |-> None]
        /\ ended = FALSE

Receive(s) == /\ ~ended
              /\ age' = [age EXCEPT ![s] = 0]
              /\ UNCHANGED ended

GrowOld == /\ age' = [s \in Symbols |-> IF age[s] \in {None, Old} THEN age[s]
                                        ELSE age[s] + 1]
           /\ UNCHANGED ended

End == ended' = TRUE /\ UNCHANGED age

Next == (\E s \in Symbols : Receive(s)) \/ GrowOld \/ End

Spec == Init /\ [][Next]_<<age, ended>>
===============================================================================
