---------------------------- MODULE MCIncidents ----------------------------
(***************************************************************************)
(* Incidents for one support request and one incident without a ticket.    *)
(***************************************************************************)
EXTENDS Incidents

CONSTANTS s1, g1, w1, w2, p1
=============================================================================
