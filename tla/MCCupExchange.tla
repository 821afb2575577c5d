--------------------------- MODULE MCCupExchange ---------------------------
(* CupExchange with two attempts, two generations of keys and two responses. *)
EXTENDS CupExchange
=============================================================================
