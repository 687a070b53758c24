----------------------------- MODULE MCMetrics -----------------------------
(* The instance of the submission for TLC, with the metrics it records: two *)
(* delegations that may both be signed (see MCEmulator).                    *)
EXTENDS EmulatorMetrics, MCEmulator
=============================================================================
