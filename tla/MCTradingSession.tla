-------------------------- MODULE MCTradingSession --------------------------
(***************************************************************************)
(* TradingSession on small instances.  The handler threads that serve      *)
(* start_bot are interchangeable; the run with two of them uses that.      *)
(***************************************************************************)
EXTENDS TradingSession, TLC

Symmetry == Permutations(Clicks)

=============================================================================
