-------------------------- MODULE MCPostProcessor --------------------------
(***************************************************************************)
(* PostProcessor for a few orders.                                         *)
(***************************************************************************)
EXTENDS PostProcessor

CONSTANTS o1, o2, o3
=============================================================================
