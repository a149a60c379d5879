----------------------------- MODULE MCPrediction -----------------------------
(* Prediction for GPUs that are always at 90 percent, held by eight pods.  *)
EXTENDS Prediction

MCLoads == {[util |-> 90, pods |-> 8]}
MCStarts == {7 * 24}
=============================================================================
