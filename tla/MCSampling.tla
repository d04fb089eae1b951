------------------------------ MODULE MCSampling ------------------------------
(***************************************************************************)
(* Sampling with the shortest context the assumption allows: time for two  *)
(* slots of every pair.                                                    *)
(***************************************************************************)
EXTENDS Sampling
===============================================================================
