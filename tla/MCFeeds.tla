------------------------------- MODULE MCFeeds -------------------------------
(***************************************************************************)
(* Feeds with timers of a few units in the order of the code's: a backoff  *)
(* that is doubled past its limit once, as 16 s becomes 32 s, and requests *)
(* that can outlast the ticker, as 10 s outlast 2 s.                       *)
(***************************************************************************)
EXTENDS Feeds
===============================================================================
