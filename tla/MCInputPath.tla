------------------------------- MODULE MCInputPath -------------------------------
(* Values for the model-checking runs of InputPath.                        *)
EXTENDS InputPath

================================================================================
