---------------------------- MODULE MCOrderBook ----------------------------
(***************************************************************************)
(* OrderBook on small instances.                                           *)
(***************************************************************************)
EXTENDS OrderBook

Three == 1..3
Two   == 1..2

=============================================================================
