--------------------------- MODULE MCAlertGateway ---------------------------
(***************************************************************************)
(* AlertGateway on small instances: all alerts come from one source, so    *)
(* they are interchangeable.                                               *)
(***************************************************************************)
EXTENDS AlertGateway, TLC

OneSource == [a \in Alerts |-> "engine"]
Symmetry == Permutations(Alerts)

=============================================================================
