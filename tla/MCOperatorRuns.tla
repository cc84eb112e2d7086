--------------------------- MODULE MCOperatorRuns ---------------------------
(* Bounds of the run that model-checks OperatorRuns.                       *)
EXTENDS OperatorRuns

\* The command is routed to one delivery; executions can add another.
TwoDeliveries == 1 .. 2
FirstDelivery == {1}
TwoArtifacts == 1 .. 2
=============================================================================
