------------------------------ MODULE MCClient ------------------------------
(* Two minions, and timeouts of a few units.                                *)
EXTENDS LocalClient, TLC

CONSTANTS a, b
=============================================================================
