------------------------------ MODULE MCControlTUI ------------------------------
(* Values for the model-checking runs of ControlTUI.                       *)
EXTENDS ControlTUI

================================================================================
