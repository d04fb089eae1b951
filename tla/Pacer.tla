-------------------------------- MODULE Pacer --------------------------------
(***************************************************************************)
(* What a rate limiter promises, without the field it keeps: every grant   *)
(* is a point of time no earlier than the request, at least Interval after *)
(* every earlier grant, and the earliest such point (a caller is never     *)
(* made to wait for longer than the pacing requires).                      *)
(*                                                                         *)
(* RateLimiter implements this specification (see Pacing there).           *)
(***************************************************************************)
EXTENDS Integers

CONSTANT Interval        \* the distance kept between two grants

VARIABLES now,           \* the clock
          grants         \* every point of time granted so far

pacerVars == <<now, grants>>

Spaced(t) == \A g \in grants : g + Interval <= t

Earliest(t) == \/ t = now
               \/ \E g \in grants : t = g + Interval

Init == /\ now = 0
        /\ grants = {}

Elapse == /\ now' = now + 1
          /\ UNCHANGED grants

Grant(t) == /\ t >= now
            /\ Spaced(t)
            /\ Earliest(t)
            /\ grants' = grants \cup {t}
            /\ UNCHANGED now

\* The candidates are written as a finite set so that TLC can enumerate them.
Next == \/ Elapse
        \/ \E t \in {now} \cup {g + Interval : g \in grants} : Grant(t)

Spec == Init /\ [][Next]_pacerVars
===============================================================================
