---------------------------- MODULE MCRateLimiter ----------------------------
(***************************************************************************)
(* RateLimiter on a small instance: Interval 2, three callers whose        *)
(* contexts are already expired, too short for a queue of two, or longer   *)
(* than the horizon.                                                       *)
(***************************************************************************)
EXTENDS RateLimiter

MCDeadlines == {0, 2, Horizon + 1}
===============================================================================
